---- MODULE Spec2Model ----
(***************************************************************************)
(* A model of the PDF overlay-redaction auditor (pdf_overlay_audit.py),    *)
(* its security audits (pdf_security_audit.py,                             *)
(* pdf_security_audit_advanced.py) and the runners that drive them         *)
(* (overlay_checker.py, pdf_redaction_audit.py,                            *)
(* scan_court_records_advanced.py).                                        *)
(*                                                                         *)
(* Units.  Coordinates are quarter points (UnitsPerPoint to the point), so *)
(* an area is in sixteenths of a square point.  A colour component and the *)
(* black threshold are hundredths (0.15 is 15).  min_overlap_area is in    *)
(* tenths of a square point (4.0 is 40, 0.5 is 5), so the code's           *)
(* "area >= min_overlap_area" reads "10 * area >= 16 * min_overlap_area".  *)
(***************************************************************************)
EXTENDS Integers, Sequences, FiniteSets, TLC

VARIABLES
    \* ---- one call of detect_overlaps / audit_page on one page
    page,              \* the page handed to the call
    min_overlap_area,  \* tenths of a square point
    min_hits,
    pg_pc,             \* "input" | "detected" | "audited" | "off"
    pg_count,          \* result of detect_overlaps(.., stop_after=None)
    pg_risk,           \* result of audit_page
    \* ---- the file system under the scanned directory
    fs,                \* path |-> what is stored there (a document or a directory)
    dir_kind,          \* what dir_path is: "dir" | "file" | "missing"
    recursive,
    content,           \* what the structural checks find in the document under audit
    \* ---- audit_directory
    ad_pc,             \* "off" | "start" | "glob" | "loop" | "call" | "returned" | "killed"
    pdf_files,         \* sorted(dir_path.glob(pattern))
    file_idx,          \* position of the for loop in pdf_files
    reports,
    \* ---- one activation of audit_pdf
    ap_pc,             \* "idle" | "open" | "encrypted" | "pages" | "close" | "return" | "done"
    ap_path,
    ap_handle,         \* the fitz document: "none" | "open" | "closed"
    ap_total_pages,
    ap_flagged,
    ap_error,
    ap_page_idx,
    ap_report,
    \* ---- one activation of audit_pdf_security or audit_pdf_advanced
    sa_pc,             \* "idle" | "open" | "auth" | "checks" | "close" | "pike" |
                       \* "incremental" | "score" | "return" | "done"
    sa_fn,             \* "security" | "advanced"
    sa_path,
    sa_handle,         \* the fitz document: "none" | "open" | "closed"
    sa_check,          \* how many of the document checks have run
    sa_notes,          \* findings.notes
    has_pikepdf,       \* HAS_PIKEPDF
    sa_findings,       \* findings, but for its notes
    \* ---- one run on a single document: a direct call, or the wrapper's main
    entry,             \* "audit_pdf" | "audit_pdf_security" | "audit_pdf_advanced" | "main" | "off"
    include_security,
    m_pc,              \* "start" | "overlay" | "security" | "output" | "exit0" | "exit1"
    output,            \* None, or Some(the JSON document main printed)
    \* ---- what the audits did to a document that refused the empty password
    auth_failed,       \* the stages in which authenticate("") returned False
    accesses,          \* content accesses attempted after that, as <<stage, what>>
    \* ---- one corpus run: scan_directory, or main of overlay_checker.py
    tool,              \* "scan_directory" | "overlay_checker" | "off"
    args,              \* the command line overlay_checker parsed
    run_pc,            \* position of the run; "killed" once KeyboardInterrupt ended it
    sd_i,              \* documents scan_directory has finished
    results,           \* the rows scan_directory has collected
    out_file,          \* the report file: None (absent) or Some(what it holds)
    interrupt,         \* None, or Some(where and how the user's interrupt landed)
    pdf_paths,         \* main's dict: filename -> full path
    security_paths,    \* per report, the path handed to audit_pdf_security, or None
    \* ---- one call of a function on given arguments
    call,              \* None, or the record of the function's name and arguments
    ret                \* None before the call returns, Some(result) after

pageVars == <<page, min_overlap_area, min_hits, pg_pc, pg_count, pg_risk>>
fsVars == <<fs, dir_kind, recursive, content>>
adVars == <<ad_pc, pdf_files, file_idx, reports>>
apVars == <<ap_pc, ap_path, ap_handle, ap_total_pages, ap_flagged, ap_error,
            ap_page_idx, ap_report>>
saVars == <<sa_pc, sa_fn, sa_path, sa_handle, sa_check, sa_notes, has_pikepdf,
            sa_findings>>
mVars == <<entry, include_security, m_pc, output>>
logVars == <<auth_failed, accesses>>
runVars == <<tool, args, run_pc, sd_i, results, out_file, interrupt, pdf_paths,
             security_paths>>
calcVars == <<call, ret>>

vars == <<pageVars, fsVars, adVars, apVars, saVars, mVars, logVars, runVars,
          calcVars>>

(***************************************************************************)
(* Bounds of the model.                                                    *)
(***************************************************************************)
MaxFills == 2
MaxSpans == 3
MaxMinHits == 2
MaxFiles == 2
MaxComponents == 5
MaxPages == 2

(***************************************************************************)
(* Python values.                                                          *)
(***************************************************************************)
\* Optional[T]: None is the empty tuple, a value x is the one-tuple <<x>>
None == <<>>
Some(x) == <<x>>

Max(a, b) == IF a >= b THEN a ELSE b
Min(a, b) == IF a <= b THEN a ELSE b
Abs(a) == IF a >= 0 THEN a ELSE 0 - a

\* every sequence over S of length at most n, without repeated elements
RECURSIVE SeqsUpTo(_, _)
SeqsUpTo(S, n) ==
    IF n = 0 THEN {<<>>}
    ELSE LET shorter == SeqsUpTo(S, n - 1)
         IN  shorter \cup
             {Append(s, x) : s \in {t \in shorter : Len(t) = n - 1},
                             x \in S}

Distinct(s) == \A i, j \in 1..Len(s) : i # j => s[i] # s[j]

(***************************************************************************)
(* fitz.Rect: <<x0, y0, x1, y1>>.                                          *)
(***************************************************************************)
UnitsPerPoint == 4
SqUnitsPerSqPoint == UnitsPerPoint * UnitsPerPoint
\* fitz.Rect(x0, y0, x1, y1) with coordinates given in quarter points
RectQ(x0, y0, x1, y1) == <<x0, y0, x1, y1>>
\* fitz.Rect(x0, y0, x1, y1) with coordinates given in whole points
Rect(x0, y0, x1, y1) ==
    RectQ(UnitsPerPoint * x0, UnitsPerPoint * y0, UnitsPerPoint * x1, UnitsPerPoint * y1)
RectWidth(r) == Max(0, r[3] - r[1])
RectHeight(r) == Max(0, r[4] - r[2])
\* rect1 & rect2
RectAnd(a, b) == <<Max(a[1], b[1]), Max(a[2], b[2]), Min(a[3], b[3]), Min(a[4], b[4])>>
RectIsEmpty(r) == r[1] >= r[3] \/ r[2] >= r[4]
RectIsValid(r) == r[1] <= r[3] /\ r[2] <= r[4]
RectGetArea(r) == RectWidth(r) * RectHeight(r)

(***************************************************************************)
(* is_color_black: a colour is a tuple of components in hundredths; None   *)
(* and () are both the empty tuple (both falsy).                           *)
(***************************************************************************)
\* variant: CMYK asks for a low K
is_color_black_low_k(color, threshold) ==
    IF Len(color) = 0 THEN FALSE
    ELSE IF Len(color) = 1 THEN color[1] <= threshold
    ELSE IF Len(color) = 3
         THEN color[1] <= threshold /\ color[2] <= threshold /\ color[3] <= threshold
    ELSE IF Len(color) = 4
         THEN /\ color[4] <= 100 - threshold
              /\ color[1] <= threshold
              /\ color[2] <= threshold
              /\ color[3] <= threshold
    ELSE \A i \in 1..Len(color) : color[i] <= threshold

is_color_black(color, threshold) ==
    IF Len(color) = 0 THEN FALSE
    ELSE IF Len(color) = 1 THEN color[1] <= threshold
    ELSE IF Len(color) = 3
         THEN color[1] <= threshold /\ color[2] <= threshold /\ color[3] <= threshold
    ELSE IF Len(color) = 4
         THEN /\ color[4] >= 100 - threshold
              /\ color[1] <= threshold
              /\ color[2] <= threshold
              /\ color[3] <= threshold
    ELSE \A i \in 1..Len(color) : color[i] <= threshold

(***************************************************************************)
(* compute_overlap_area                                                    *)
(***************************************************************************)
\* variant: the area of the first rectangle whenever the two intersect
compute_overlap_area_first(rect1, rect2) ==
    LET intersection == RectAnd(rect1, rect2)
    IN  IF RectIsEmpty(intersection) \/ ~RectIsValid(intersection)
        THEN 0
        ELSE RectGetArea(rect1)

compute_overlap_area(rect1, rect2) ==
    LET intersection == RectAnd(rect1, rect2)
    IN  IF RectIsEmpty(intersection) \/ ~RectIsValid(intersection)
        THEN 0
        ELSE RectGetArea(intersection)

(***************************************************************************)
(* A page: its rectangle, its vector drawings (None when get_drawings      *)
(* raises, else Some(list)), the spans of its text blocks (None when       *)
(* get_text raises, else Some(list)).  A span: [bbox, text]; bbox is <<>>  *)
(* when the span has none.                                                 *)
(* A drawing: [fill, rect, items]; rect is None when the drawing has no    *)
(* Rect under "rect", else Some(Rect); items holds the Rects of its path   *)
(* items.                                                                  *)
(***************************************************************************)
RECURSIVE FlattenSeq(_)
FlattenSeq(ss) == IF ss = <<>> THEN <<>> ELSE Head(ss) \o FlattenSeq(Tail(ss))

\* the candidate rects of one drawing that survive the filters (lines 115-149)
DrawingCandidates(drawing) ==
    drawing.rect \o drawing.items

KeepCandidate(rect, page_area, min_dimension, max_coverage_ratio) ==
    /\ ~(\/ RectWidth(rect) < UnitsPerPoint * min_dimension
         \/ RectHeight(rect) < UnitsPerPoint * min_dimension)
    \* rect_area > 0 and (rect_area / page_area) > max_coverage_ratio
    /\ ~(RectGetArea(rect) > 0 /\ 100 * RectGetArea(rect) > max_coverage_ratio * page_area)

NearIdentical(r, u) ==
    /\ 2 * Abs(r[1] - u[1]) < UnitsPerPoint
    /\ 2 * Abs(r[2] - u[2]) < UnitsPerPoint
    /\ 2 * Abs(r[3] - u[3]) < UnitsPerPoint
    /\ 2 * Abs(r[4] - u[4]) < UnitsPerPoint

\* variant: every candidate is kept
DedupeOff(black_rects, unique) == unique \o black_rects

RECURSIVE Dedupe(_, _)
Dedupe(black_rects, unique) ==
    IF black_rects = <<>> THEN unique
    ELSE LET r == Head(black_rects)
         IN  IF \E i \in 1..Len(unique) : NearIdentical(r, unique[i])
             THEN Dedupe(Tail(black_rects), unique)
             ELSE Dedupe(Tail(black_rects), Append(unique, r))

DefaultBlackThreshold == 15
DefaultMinDimension == 2
DefaultMaxCoverageRatio == 95

\* a page whose rectangle has no area makes rect_area / page_area raise
ExtractRaises(pg, black_threshold) ==
    /\ pg.drawings # None
    /\ RectGetArea(pg.rect) = 0
    /\ \E i \in 1..Len(pg.drawings[1]) :
          /\ is_color_black(pg.drawings[1][i].fill, black_threshold)
          /\ \E k \in 1..Len(DrawingCandidates(pg.drawings[1][i])) :
                LET rect == DrawingCandidates(pg.drawings[1][i])[k]
                IN  /\ RectWidth(rect) >= UnitsPerPoint * DefaultMinDimension
                    /\ RectHeight(rect) >= UnitsPerPoint * DefaultMinDimension
                    /\ RectGetArea(rect) > 0

extract_black_rectangles(pg, black_threshold) ==
    IF pg.drawings = None THEN <<>>
    ELSE LET page_area == RectGetArea(pg.rect)
             drawings == pg.drawings[1]
             kept(drawing) ==
                 IF ~is_color_black(drawing.fill, black_threshold) THEN <<>>
                 ELSE SelectSeq(DrawingCandidates(drawing),
                                LAMBDA rect : KeepCandidate(rect, page_area,
                                                  DefaultMinDimension,
                                                  DefaultMaxCoverageRatio))
             black_rects == FlattenSeq([i \in 1..Len(drawings) |-> kept(drawings[i])])
         IN  Dedupe(black_rects, <<>>)

Span(bbox, text) == [bbox |-> bbox, text |-> text]
\* the spans of a text block with these bounding boxes
Spans(rects) == [i \in 1..Len(rects) |-> Span(rects[i], "text")]

\* variant: spans of blank text are skipped
get_text_rectangles_nonblank(pg) ==
    IF pg.spans = None THEN <<>>
    ELSE LET kept == SelectSeq(pg.spans[1],
                               LAMBDA span : Len(span.bbox) = 4 /\ span.text # " ")
         IN  [i \in 1..Len(kept) |-> kept[i].bbox]

get_text_rectangles(pg) ==
    IF pg.spans = None THEN <<>>
    ELSE LET kept == SelectSeq(pg.spans[1], LAMBDA span : Len(span.bbox) = 4)
         IN  [i \in 1..Len(kept) |-> kept[i].bbox]

(***************************************************************************)
(* detect_overlaps: stop_after is None or Some(n).                         *)
(***************************************************************************)
\* mutant: the boundary is exclusive
QualifiesStrict(black_rect, text_rect, moa) ==
    10 * compute_overlap_area(black_rect, text_rect) > SqUnitsPerSqPoint * moa

\* compute_overlap_area(black_rect, text_rect) >= min_overlap_area
Qualifies(black_rect, text_rect, moa) ==
    10 * compute_overlap_area(black_rect, text_rect) >= SqUnitsPerSqPoint * moa

RECURSIVE DetectLoop(_, _, _, _, _)
DetectLoop(black_rects, text_rects, moa, stop_after, overlap_count) ==
    IF black_rects = <<>> THEN overlap_count
    ELSE LET black_rect == Head(black_rects)
             \* the inner loop: +1 and break at the first qualifying span
             hit == \E j \in 1..Len(text_rects) :
                       Qualifies(black_rect, text_rects[j], moa)
             count == IF hit THEN overlap_count + 1 ELSE overlap_count
         IN  IF stop_after # None /\ count >= stop_after[1]
             THEN count
             ELSE DetectLoop(Tail(black_rects), text_rects, moa, stop_after, count)

\* mutant: no break, every qualifying fill/span pair is counted
RECURSIVE DetectLoopPairs(_, _, _, _, _)
DetectLoopPairs(black_rects, text_rects, moa, stop_after, overlap_count) ==
    IF black_rects = <<>> THEN overlap_count
    ELSE LET black_rect == Head(black_rects)
             count == overlap_count
                      + Cardinality({j \in 1..Len(text_rects) :
                                       Qualifies(black_rect, text_rects[j], moa)})
         IN  IF stop_after # None /\ count >= stop_after[1]
             THEN count
             ELSE DetectLoopPairs(Tail(black_rects), text_rects, moa, stop_after, count)

detect_overlaps_pairs(black_rects, text_rects, moa, stop_after) ==
    DetectLoopPairs(black_rects, text_rects, moa, stop_after, 0)

\* mutant: stop_after is ignored, every fill is examined
detect_overlaps_full(black_rects, text_rects, moa, stop_after) ==
    DetectLoop(black_rects, text_rects, moa, None, 0)

detect_overlaps(black_rects, text_rects, moa, stop_after) ==
    DetectLoop(black_rects, text_rects, moa, stop_after, 0)

(***************************************************************************)
(* audit_page                                                              *)
(***************************************************************************)
PageRisk(page_number, black_rect_count, overlap_count, confidence_score) ==
    [page_number |-> page_number, black_rect_count |-> black_rect_count,
     overlap_count |-> overlap_count, confidence_score |-> confidence_score,
     heuristic |-> "black_fill_rect_overlap_text"]

\* variant: the shape weight is given only when every fill is wide
ConfidenceScoreAllWide(black_rects, overlap_count, hits) ==
    (IF Len(black_rects) > 0 THEN 3 ELSE 0)
    + (IF overlap_count >= hits THEN 3 ELSE 0)
    + (IF \A i \in 1..Len(black_rects) :
             RectWidth(black_rects[i]) > RectHeight(black_rects[i]) * 3
       THEN 1 ELSE 0)
    + (IF Len(black_rects) >= 3 THEN 1 ELSE 0)

ConfidenceScore(black_rects, overlap_count, hits) ==
    (IF Len(black_rects) > 0 THEN 3 ELSE 0)
    + (IF overlap_count >= hits THEN 3 ELSE 0)
    + (IF \E i \in 1..Len(black_rects) :
             RectWidth(black_rects[i]) > RectHeight(black_rects[i]) * 3
       THEN 1 ELSE 0)
    + (IF Len(black_rects) >= 3 THEN 1 ELSE 0)

\* mutant: a page is flagged as soon as one fill overlaps text, whatever min_hits
audit_page_any_hit(pg, page_num, black_threshold, moa, hits) ==
    LET black_rects == extract_black_rectangles(pg, black_threshold)
        text_rects == get_text_rectangles(pg)
        overlap_count == detect_overlaps(black_rects, text_rects, moa, Some(hits))
    IN  IF black_rects = <<>> THEN None
        ELSE IF text_rects = <<>> THEN None
        ELSE IF overlap_count >= 1
             THEN Some(PageRisk(page_num, Len(black_rects), overlap_count,
                                ConfidenceScore(black_rects, overlap_count, hits)))
             ELSE None

audit_page(pg, page_num, black_threshold, moa, hits) ==
    LET black_rects == extract_black_rectangles(pg, black_threshold)
        text_rects == get_text_rectangles(pg)
        overlap_count == detect_overlaps(black_rects, text_rects, moa, Some(hits))
    IN  IF black_rects = <<>> THEN None
        ELSE IF text_rects = <<>> THEN None
        ELSE IF overlap_count >= hits
             THEN Some(PageRisk(page_num, Len(black_rects), overlap_count,
                                ConfidenceScore(black_rects, overlap_count, hits)))
             ELSE None

(***************************************************************************)
(* The pages the checks range over.                                        *)
(***************************************************************************)
PageRect == Rect(0, 0, 612, 792)
Black == <<0, 0, 0>>
White == <<100, 100, 100>>

Drawing(fill, rect) == [fill |-> fill, rect |-> Some(rect), items |-> <<>>]

DrawingPool ==
    { Drawing(Black, Rect(0, 0, 30, 30)),
      Drawing(Black, Rect(0, 0, 20, 20)),
      Drawing(Black, Rect(0, 0, 10, 10)),
      Drawing(Black, Rect(20, 0, 30, 10)),
      Drawing(White, Rect(0, 0, 20, 20)) }

SpanPool ==
    << Rect(5, 5, 10, 10), Rect(15, 15, 20, 20), Rect(22, 22, 27, 27),
       Rect(100, 100, 110, 110), Rect(9, 9, 15, 15), Rect(5, 5, 8, 8),
       Rect(8, 8, 15, 15) >>

\* the spans of a page in layout order: the sub-sequences of SpanPool
SubSeqOf(pool, S) == SelectSeq(pool, LAMBDA x : x \in S)
SpanLists ==
    { SubSeqOf(SpanPool, S) :
        S \in { T \in SUBSET { SpanPool[i] : i \in 1..Len(SpanPool) } :
                  Cardinality(T) <= MaxSpans } }

DrawingLists == SeqsUpTo(DrawingPool, MaxFills)

MinOverlapAreas == {0, 5, 40}

(***************************************************************************)
(* AdvancedSecurityFindings (pdf_security_audit_advanced.py), the fields   *)
(* the score, the metadata check and the wrapper's output read.            *)
(***************************************************************************)
NoFindings ==
    [ has_metadata |-> FALSE, metadata_keys |-> <<>>, metadata_details |-> <<>>,
      has_hidden_text |-> FALSE, overlay_risk |-> "NO", has_attachments |-> FALSE,
      has_forms |-> FALSE, reviewer_names |-> <<>>, has_ocr_layer |-> FALSE,
      has_javascript |-> FALSE, has_external_links |-> FALSE,
      has_remote_resources |-> FALSE, has_signatures |-> FALSE,
      incremental_updates |-> FALSE, has_structure_tags |-> FALSE,
      has_thumbnails |-> FALSE, risk_score |-> 0 ]

\* a document's structural content: the signals it carries, its metadata as
\* <<key, value>> pairs (a value is a sequence of words, <<>> when empty), the
\* reviewers its annotations name, and the checks whose sub-structure is
\* malformed, so that reading it raises
Content(signals, metadata, reviewers, malformed) ==
    [signals |-> signals, metadata |-> metadata, reviewers |-> reviewers,
     malformed |-> malformed]

NoContent == Content({}, <<>>, <<>>, {})

\* line 123: str(v)[:100]
MetadataValueLimit == 100
Truncate(v) == SubSeq(v, 1, Min(Len(v), MetadataValueLimit))

\* the metadata entries whose value is not empty
PresentMetadata(c) == SelectSeq(c.metadata, LAMBDA kv : kv[2] # <<>>)

\* check_metadata (pdf_security_audit.py): presence and key names
check_metadata(c) ==
    IF "metadata" \in c.malformed \/ c.metadata = <<>>
    THEN [has_metadata |-> FALSE, metadata_keys |-> <<>>]
    ELSE LET m == PresentMetadata(c)
         IN  [has_metadata |-> Len(m) > 0,
              metadata_keys |-> [i \in 1..Len(m) |-> m[i][1]]]

\* check_metadata_detailed (pdf_security_audit_advanced.py): details[k] = str(v)[:100]
check_metadata_detailed(c) ==
    IF "metadata" \in c.malformed \/ c.metadata = <<>>
    THEN [has_metadata |-> FALSE, metadata_keys |-> <<>>, metadata_details |-> <<>>]
    ELSE LET m == PresentMetadata(c)
         IN  [has_metadata |-> Len(m) > 0,
              metadata_keys |-> [i \in 1..Len(m) |-> m[i][1]],
              metadata_details |-> [i \in 1..Len(m) |-> <<m[i][1], Truncate(m[i][2])>>]]

\* a check's try block: its except clause returns the default, and no more
CheckSignal(c, check, signal) == check \notin c.malformed /\ signal \in c.signals

\* what a check of audit_pdf_security assigns to the findings (lines 261-271)
SecurityCheckResult(c, check) ==
    CASE check = "metadata" -> check_metadata(c)
      [] check = "attachments" -> [has_attachments |-> CheckSignal(c, check, "has_attachments")]
      [] check = "forms" -> [has_forms |-> CheckSignal(c, check, "has_forms")]
      [] OTHER -> <<>>

\* what a check of audit_pdf_advanced assigns to the findings (lines 551-592)
AdvancedCheckResult(c, check) ==
    CASE check = "metadata" -> check_metadata_detailed(c)
      [] check = "hidden_text" -> [has_hidden_text |-> CheckSignal(c, check, "has_hidden_text")]
      [] check = "attachments" -> [has_attachments |-> CheckSignal(c, check, "has_attachments")]
      [] check = "reviewer_info" ->
            [reviewer_names |-> IF check \in c.malformed THEN <<>> ELSE c.reviewers]
      [] check = "forms" -> [has_forms |-> CheckSignal(c, check, "has_forms")]
      [] check = "ocr_layer" -> [has_ocr_layer |-> CheckSignal(c, check, "has_ocr_layer")]
      [] check = "external_links" ->
            [has_external_links |-> CheckSignal(c, check, "has_external_links")]
      [] check = "signatures" -> [has_signatures |-> CheckSignal(c, check, "has_signatures")]
      [] OTHER -> <<>>

\* the checks that reopen the file with pikepdf
SecurityPikeResult(c) ==
    [has_javascript |-> CheckSignal(c, "javascript", "has_javascript"),
     has_thumbnails |-> CheckSignal(c, "thumbnails", "has_thumbnails")]

AdvancedPikeResult(c) ==
    [has_javascript |-> CheckSignal(c, "javascript", "has_javascript"),
     has_remote_resources |-> CheckSignal(c, "remote_resources", "has_remote_resources"),
     has_structure_tags |-> CheckSignal(c, "structure_tags", "has_structure_tags"),
     has_thumbnails |-> CheckSignal(c, "thumbnails", "has_thumbnails")]

\* check_incremental_updates
IncrementalResult(c) ==
    [incremental_updates |-> CheckSignal(c, "incremental_updates", "incremental_updates")]

\* findings.<field> = <value> for every field of r
Assign(findings, r) ==
    [k \in DOMAIN findings |-> IF k \in DOMAIN r THEN r[k] ELSE findings[k]]

(***************************************************************************)
(* calculate_risk_score (pdf_security_audit_advanced.py).  The findings    *)
(* are the fields of AdvancedSecurityFindings that the score reads.        *)
(***************************************************************************)
\* variant: links and remote resources are weighed separately
calculate_risk_score_two_links(findings) ==
    Min((IF findings.has_hidden_text THEN 15 ELSE 0)
        + (IF findings.overlay_risk \in {"YES", "MAYBE"}
           THEN (IF findings.overlay_risk = "YES" THEN 20 ELSE 10) ELSE 0)
        + (IF findings.has_signatures THEN 10 ELSE 0)
        + (IF findings.has_javascript THEN 15 ELSE 0)
        + (IF findings.has_external_links THEN 10 ELSE 0)
        + (IF findings.has_remote_resources THEN 10 ELSE 0)
        + (IF findings.has_metadata THEN 5 ELSE 0)
        + (IF findings.has_attachments THEN 5 ELSE 0)
        + (IF findings.reviewer_names # <<>> THEN 5 ELSE 0)
        + (IF findings.has_ocr_layer THEN 3 ELSE 0)
        + (IF findings.incremental_updates THEN 5 ELSE 0)
        + (IF findings.has_forms THEN 2 ELSE 0)
        + (IF findings.has_thumbnails THEN 2 ELSE 0)
        + (IF findings.has_structure_tags THEN 1 ELSE 0), 100)

calculate_risk_score(findings) ==
    Min((IF findings.has_hidden_text THEN 15 ELSE 0)
        + (IF findings.overlay_risk \in {"YES", "MAYBE"}
           THEN (IF findings.overlay_risk = "YES" THEN 20 ELSE 10) ELSE 0)
        + (IF findings.has_signatures THEN 10 ELSE 0)
        + (IF findings.has_javascript THEN 15 ELSE 0)
        + (IF findings.has_external_links \/ findings.has_remote_resources THEN 10 ELSE 0)
        + (IF findings.has_metadata THEN 5 ELSE 0)
        + (IF findings.has_attachments THEN 5 ELSE 0)
        + (IF findings.reviewer_names # <<>> THEN 5 ELSE 0)
        + (IF findings.has_ocr_layer THEN 3 ELSE 0)
        + (IF findings.incremental_updates THEN 5 ELSE 0)
        + (IF findings.has_forms THEN 2 ELSE 0)
        + (IF findings.has_thumbnails THEN 2 ELSE 0)
        + (IF findings.has_structure_tags THEN 1 ELSE 0), 100)

\* the variables of audit_directory / audit_pdf, at rest
BatchOff ==
    /\ fs = <<>>
    /\ dir_kind = "missing"
    /\ recursive = FALSE
    /\ content = NoContent
    /\ ad_pc = "off"
    /\ pdf_files = <<>>
    /\ file_idx = 0
    /\ reports = <<>>
    /\ ap_pc = "idle"
    /\ ap_path = <<>>
    /\ ap_handle = "none"
    /\ ap_total_pages = 0
    /\ ap_flagged = <<>>
    /\ ap_error = None
    /\ ap_page_idx = 0
    /\ ap_report = None
    /\ auth_failed = {}
    /\ accesses = {}
    /\ sa_pc = "idle"
    /\ sa_fn = "security"
    /\ sa_path = <<>>
    /\ sa_handle = "none"
    /\ sa_check = 0
    /\ sa_notes = <<>>
    /\ sa_findings = NoFindings
    /\ has_pikepdf = FALSE
    /\ entry = "off"
    /\ include_security = FALSE
    /\ m_pc = "start"
    /\ output = None

\* the variables of a corpus run, at rest
\* overlay_checker.py lines 363-407: the options that are validated, at
\* their defaults but for --json
Args(black_threshold, moa, hits, json, csv) ==
    [black_threshold |-> black_threshold, min_overlap_area |-> moa, min_hits |-> hits,
     json |-> json, csv |-> csv]
DefaultArgs == Args(15, 40, 1, TRUE, FALSE)

RunOff ==
    /\ tool = "off"
    /\ args = DefaultArgs
    /\ run_pc = "off"
    /\ sd_i = 0
    /\ results = <<>>
    /\ out_file = None
    /\ interrupt = None
    /\ pdf_paths = <<>>
    /\ security_paths = <<>>
    /\ call = None
    /\ ret = None

PgInit ==
    /\ BatchOff
    /\ RunOff
    /\ page \in { [rect |-> PageRect, drawings |-> Some(d), spans |-> Some(Spans(s))] :
                    d \in { x \in DrawingLists : Distinct(x) }, s \in SpanLists }
    /\ min_overlap_area \in MinOverlapAreas
    /\ min_hits \in 1..MaxMinHits
    /\ pg_pc = "input"
    /\ pg_count = 0
    /\ pg_risk = None

\* a direct call detect_overlaps(black_rects, text_rects, min_overlap_area)
DetectOverlapsCall ==
    /\ pg_pc = "input"
    /\ pg_count' = detect_overlaps(extract_black_rectangles(page, DefaultBlackThreshold),
                                   get_text_rectangles(page), min_overlap_area, None)
    /\ pg_pc' = "detected"
    /\ UNCHANGED <<page, min_overlap_area, min_hits, pg_risk>>
    /\ UNCHANGED <<fsVars, adVars, apVars, saVars, mVars, logVars, runVars, calcVars>>

\* a call audit_page(page, 1, black_threshold, min_overlap_area, min_hits)
AuditPageCall ==
    /\ pg_pc = "input"
    /\ pg_risk' = audit_page(page, 1, DefaultBlackThreshold, min_overlap_area, min_hits)
    /\ pg_pc' = "audited"
    /\ UNCHANGED <<page, min_overlap_area, min_hits, pg_count>>
    /\ UNCHANGED <<fsVars, adVars, apVars, saVars, mVars, logVars, runVars, calcVars>>

PgNext == DetectOverlapsCall \/ AuditPageCall

SpecPage == PgInit /\ [][PgNext]_vars

(***************************************************************************)
(* Documents as the PDF library presents them.                             *)
(*   open_exc     what fitz.open raises ("none": it returns a document)    *)
(*   is_encrypted, accepts_empty_password     doc.authenticate("")         *)
(*   pages        Some(page), or None when loading that page raises        *)
(***************************************************************************)
Doc(open_exc, is_encrypted, accepts_empty_password, pages) ==
    [open_exc |-> open_exc, is_encrypted |-> is_encrypted,
     accepts_empty_password |-> accepts_empty_password, pages |-> pages]

\* doc.is_encrypted and not doc.authenticate("")
Locked(doc) == doc.is_encrypted /\ ~doc.accepts_empty_password

CleanPage ==
    [rect |-> PageRect, drawings |-> Some(<<>>), spans |-> Some(Spans(<<Rect(5, 5, 10, 10)>>))]
RiskyPage ==
    [rect |-> PageRect, drawings |-> Some(<<Drawing(Black, Rect(0, 0, 20, 20))>>),
     spans |-> Some(Spans(<<Rect(5, 5, 10, 10)>>))]

\* the page with the text of every span replaced
WithText(pg, text) ==
    [pg EXCEPT !.spans = Some([i \in 1..Len(pg.spans[1]) |->
                                  [pg.spans[1][i] EXCEPT !.text = text]])]

DocPool ==
    { Doc("FileNotFoundError", FALSE, FALSE, <<>>),
      Doc("FileDataError", FALSE, FALSE, <<>>),
      Doc("PermissionError", FALSE, FALSE, <<>>),
      Doc("RuntimeError", FALSE, FALSE, <<>>),
      Doc("none", TRUE, FALSE, <<Some(RiskyPage), Some(CleanPage)>>),
      Doc("none", TRUE, TRUE, <<Some(RiskyPage)>>),
      Doc("none", FALSE, FALSE, <<Some(CleanPage), Some(RiskyPage)>>),
      Doc("none", FALSE, FALSE, <<Some(WithText(CleanPage, " ")), Some(WithText(RiskyPage, " "))>>),
      Doc("none", FALSE, FALSE, <<Some(RiskyPage), None>>) }

(***************************************************************************)
(* Paths below the scanned directory, as tuples of parts.                  *)
(***************************************************************************)
PathPool ==
    { <<"a.pdf">>, <<"b.pdf">>, <<"m", "a.pdf">>, <<"n.txt">>, <<"z.pdf">> }

\* the path parts in use, in the order of Python's str comparison
NameOrder == <<"a.pdf", "b.pdf", "c.pdf", "m", "n.txt", "z.pdf">>
NameRank(n) == CHOOSE i \in 1..Len(NameOrder) : NameOrder[i] = n
StrLess(a, b) == NameRank(a) < NameRank(b)

\* Path.name
PathName(path) == path[Len(path)]
\* fnmatch(name, "*.pdf")
EndsWithPdf(name) == name \in {"a.pdf", "b.pdf", "c.pdf", "z.pdf"}

\* Path.__lt__: the lists of parts, compared lexicographically
RECURSIVE PathLess(_, _)
PathLess(p, q) ==
    IF q = <<>> THEN FALSE
    ELSE IF p = <<>> THEN TRUE
    ELSE IF Head(p) = Head(q) THEN PathLess(Tail(p), Tail(q))
    ELSE StrLess(Head(p), Head(q))

\* mutant: no sorting key at all, the files come in the order the
\* directory lists them (here: deepest first)
RECURSIVE UnsortedSeq(_)
UnsortedSeq(S) ==
    IF S = {} THEN <<>>
    ELSE LET x == CHOOSE y \in S : \A z \in S : Len(z) <= Len(y) /\ (Len(z) = Len(y) => ~PathLess(z, y))
         IN  <<x>> \o UnsortedSeq(S \ {x})

\* sorted(paths)
RECURSIVE SortedSeq(_)
SortedSeq(S) ==
    IF S = {} THEN <<>>
    ELSE LET x == CHOOSE y \in S : \A z \in S : ~PathLess(z, y)
         IN  <<x>> \o SortedSeq(S \ {x})

\* dir_path.glob("**/*.pdf" if recursive else "*.pdf")
Glob(files, rec) ==
    { path \in DOMAIN files :
        /\ EndsWithPdf(PathName(path))
        /\ rec \/ Len(path) = 1 }

FileEntry(doc) == [kind |-> "file", doc |-> doc]
DirEntry == [kind |-> "dir", doc |-> Doc("PermissionError", FALSE, FALSE, <<>>)]
\* a file that glob lists but stat refuses (its directory can be read but not
\* searched): Path.is_file() raises PermissionError for it
DeniedEntry == [kind |-> "denied", doc |-> Doc("PermissionError", FALSE, FALSE, <<>>)]
EntryPool == { FileEntry(d) : d \in DocPool } \cup { DirEntry, DeniedEntry }

(***************************************************************************)
(* audit_pdf                                                               *)
(***************************************************************************)
PDFRiskReport(filename, total_pages, flagged_pages, error) ==
    [filename |-> filename, total_pages |-> total_pages,
     flagged_pages |-> flagged_pages, error |-> error]

\* an error message: its fixed text, then the path or exception it formats
ErrorText(text, path, exc) == [text |-> text, path |-> path, exc |-> exc]

\* the except clauses of audit_pdf (lines 352-359)
ErrorFor(exc, pdf_path) ==
    IF exc = "FileNotFoundError" THEN ErrorText("File not found: ", pdf_path, "")
    ELSE IF exc = "FileDataError" THEN ErrorText("Invalid or corrupt PDF: ", <<>>, exc)
    ELSE IF exc = "PermissionError" THEN ErrorText("Permission denied: ", pdf_path, "")
    ELSE ErrorText("Unexpected error: ", <<>>, exc)

EncryptedError == ErrorText("PDF is encrypted", <<>>, " and requires a password")

ApDoc == fs[ap_path].doc

\* a content access made on a document that refused the empty password
LogAccess(doc, stage, what) ==
    IF Locked(doc) THEN accesses \cup {<<stage, what>>} ELSE accesses

\* lines 316-322: the locals, fitz.open and len(doc)
AP_Open ==
    /\ ap_pc = "open"
    /\ ap_flagged' = <<>>
    /\ ap_page_idx' = 0
    /\ IF ApDoc.open_exc # "none"
       THEN /\ ap_error' = Some(ErrorFor(ApDoc.open_exc, ap_path))
            /\ ap_total_pages' = 0
            /\ ap_handle' = "none"
            /\ ap_pc' = "return"
       ELSE /\ ap_error' = None
            /\ ap_total_pages' = Len(ApDoc.pages)
            /\ ap_handle' = "open"
            /\ ap_pc' = "encrypted"
    /\ UNCHANGED <<ap_path, ap_report>>
    /\ UNCHANGED <<pageVars, fsVars, adVars, saVars, mVars, logVars, runVars, calcVars>>

\* the report of lines 328-333
EncryptedReport(pdf_path, error) ==
    PDFRiskReport(PathName(pdf_path), 0, <<>>, error)

\* lines 324-333: the encryption check
AP_Encrypted ==
    /\ ap_pc = "encrypted"
    /\ IF ApDoc.is_encrypted /\ ~ApDoc.accepts_empty_password
       THEN /\ ap_error' = Some(EncryptedError)
            /\ ap_handle' = "closed"
            /\ ap_report' = Some(EncryptedReport(ap_path, Some(EncryptedError)))
            /\ auth_failed' = auth_failed \cup {"overlay"}
            /\ ap_pc' = "done"
       ELSE /\ ap_pc' = "pages"
            /\ UNCHANGED <<ap_error, ap_handle, ap_report, auth_failed>>
    /\ UNCHANGED <<ap_path, ap_total_pages, ap_flagged, ap_page_idx, accesses>>
    /\ UNCHANGED <<pageVars, fsVars, adVars, saVars, mVars, runVars, calcVars>>

\* lines 335-348: one turn of the page loop; an exception leaves the try
\* block for the handlers of lines 352-359
AP_Page ==
    /\ ap_pc = "pages"
    /\ ap_page_idx < ap_total_pages
    /\ LET loaded == ApDoc.pages[ap_page_idx + 1]
           page_num == ap_page_idx + 1
       IN  IF loaded = None \/ ExtractRaises(loaded[1], DefaultBlackThreshold)
           THEN /\ ap_error' = Some(ErrorFor(IF loaded = None THEN "RuntimeError"
                                                              ELSE "ZeroDivisionError",
                                             ap_path))
                /\ ap_pc' = "return"
                /\ UNCHANGED <<ap_flagged, ap_page_idx>>
           ELSE LET risk == audit_page(loaded[1], page_num, DefaultBlackThreshold,
                                       min_overlap_area, min_hits)
                IN  /\ ap_flagged' = ap_flagged \o risk
                    /\ ap_page_idx' = ap_page_idx + 1
                    /\ UNCHANGED <<ap_error, ap_pc>>
    /\ accesses' = LogAccess(ApDoc, "overlay", "page")
    /\ UNCHANGED <<ap_path, ap_handle, ap_total_pages, ap_report, auth_failed>>
    /\ UNCHANGED <<pageVars, fsVars, adVars, saVars, mVars, runVars, calcVars>>

\* line 350: doc.close() after the last page
AP_Close ==
    /\ ap_pc = "pages"
    /\ ap_page_idx = ap_total_pages
    /\ ap_handle' = "closed"
    /\ ap_pc' = "return"
    /\ UNCHANGED <<ap_path, ap_total_pages, ap_flagged, ap_error, ap_page_idx, ap_report>>
    /\ UNCHANGED <<pageVars, fsVars, adVars, saVars, mVars, logVars, runVars, calcVars>>

\* lines 361-366
AP_Return ==
    /\ ap_pc = "return"
    /\ ap_report' = Some(PDFRiskReport(PathName(ap_path), ap_total_pages, ap_flagged, ap_error))
    /\ ap_pc' = "done"
    /\ UNCHANGED <<ap_path, ap_handle, ap_total_pages, ap_flagged, ap_error, ap_page_idx>>
    /\ UNCHANGED <<pageVars, fsVars, adVars, saVars, mVars, logVars, runVars, calcVars>>

AuditPdfStep == AP_Open \/ AP_Encrypted \/ AP_Page \/ AP_Close \/ AP_Return

(***************************************************************************)
(* audit_directory                                                         *)
(***************************************************************************)
\* lines 385-391
AD_Start ==
    /\ ad_pc = "start"
    /\ reports' = <<>>
    /\ ad_pc' = IF dir_kind = "dir" THEN "glob" ELSE "returned"
    /\ UNCHANGED <<pdf_files, file_idx>>
    /\ UNCHANGED <<pageVars, fsVars, apVars, saVars, mVars, logVars, runVars, calcVars>>

\* line 397
AD_Glob ==
    /\ ad_pc = "glob"
    /\ pdf_files' = SortedSeq(Glob(fs, recursive))
    /\ file_idx' = 1
    /\ ad_pc' = "loop"
    /\ UNCHANGED reports
    /\ UNCHANGED <<pageVars, fsVars, apVars, saVars, mVars, logVars, runVars, calcVars>>

\* lines 399-401: the next file of the loop.  The try block of line 396 holds
\* the whole loop, so a PermissionError raised by is_file() leaves the loop
\* for the handler of lines 404-406, which passes.
AD_Next ==
    /\ ad_pc = "loop"
    /\ IF file_idx > Len(pdf_files) \/ fs[pdf_files[file_idx]].kind = "denied"
       THEN /\ ad_pc' = "returned"
            /\ UNCHANGED <<file_idx, ap_pc, ap_path>>
       ELSE IF fs[pdf_files[file_idx]].kind = "file"
       THEN /\ ad_pc' = "call"
            /\ ap_pc' = "open"
            /\ ap_path' = pdf_files[file_idx]
            /\ UNCHANGED file_idx
       ELSE /\ file_idx' = file_idx + 1
            /\ UNCHANGED <<ad_pc, ap_pc, ap_path>>
    /\ UNCHANGED <<pdf_files, reports>>
    /\ UNCHANGED <<ap_handle, ap_total_pages, ap_flagged, ap_error, ap_page_idx, ap_report>>
    /\ UNCHANGED <<pageVars, fsVars, saVars, mVars, logVars, runVars, calcVars>>

\* lines 401-402: report = audit_pdf(..) has returned; reports.append(report)
AD_Collect ==
    /\ ad_pc = "call"
    /\ ap_pc = "done"
    /\ reports' = Append(reports, ap_report[1])
    /\ file_idx' = file_idx + 1
    /\ ad_pc' = "loop"
    /\ ap_pc' = "idle"
    /\ UNCHANGED pdf_files
    /\ UNCHANGED <<ap_path, ap_handle, ap_total_pages, ap_flagged, ap_error, ap_page_idx, ap_report>>
    /\ UNCHANGED <<pageVars, fsVars, saVars, mVars, logVars, runVars, calcVars>>

AuditDirectoryStep == AD_Start \/ AD_Glob \/ AD_Next \/ AD_Collect

\* the variables of the single-page calls, at rest
PageOff ==
    /\ page = CleanPage
    /\ min_overlap_area = 40
    /\ min_hits = 1
    /\ pg_pc = "off"
    /\ pg_count = 0
    /\ pg_risk = None

\* the variables of the security audits and of the wrapper, at rest
SecurityOff ==
    /\ sa_pc = "idle"
    /\ sa_fn = "security"
    /\ sa_path = <<>>
    /\ sa_handle = "none"
    /\ sa_check = 0
    /\ sa_notes = <<>>
    /\ sa_findings = NoFindings
    /\ has_pikepdf = FALSE
    /\ entry = "off"
    /\ include_security = FALSE
    /\ m_pc = "start"
    /\ output = None

FileSystems ==
    UNION { [P -> EntryPool] : P \in { Q \in SUBSET PathPool : Cardinality(Q) <= MaxFiles } }

BatchInit ==
    /\ PageOff
    /\ fs \in FileSystems
    /\ dir_kind \in {"dir", "file", "missing"}
    /\ dir_kind # "dir" => fs = <<>>
    /\ recursive \in BOOLEAN
    /\ content = NoContent
    /\ ad_pc = "start"
    /\ pdf_files = <<>>
    /\ file_idx = 0
    /\ reports = <<>>
    /\ ap_pc = "idle"
    /\ ap_path = <<>>
    /\ ap_handle = "none"
    /\ ap_total_pages = 0
    /\ ap_flagged = <<>>
    /\ ap_error = None
    /\ ap_page_idx = 0
    /\ ap_report = None
    /\ auth_failed = {}
    /\ accesses = {}
    /\ SecurityOff
    /\ RunOff

BatchNext == AuditDirectoryStep \/ AuditPdfStep

SpecBatch == BatchInit /\ [][BatchNext]_vars

(***************************************************************************)
(* audit_pdf_security (pdf_security_audit.py).  Each check_* function      *)
(* wraps its body in try/except Exception and returns defaults on failure, *)
(* so no check lets an exception out.                                      *)
(***************************************************************************)
SaDoc == fs[sa_path].doc

\* the checks made on the open fitz document, in call order (lines 261-271)
SecurityChecks == <<"metadata", "attachments", "annotations", "forms">>

\* lines 252-256: findings = SecurityFindings(); fitz.open
SEC_Open ==
    /\ sa_pc = "open"
    /\ sa_fn = "security"
    /\ sa_check' = 0
    /\ sa_findings' = NoFindings
    /\ IF SaDoc.open_exc # "none"
       THEN /\ sa_notes' = <<<<"Error during security audit: ", SaDoc.open_exc>>>>
            /\ sa_handle' = "none"
            /\ sa_pc' = "return"
       ELSE /\ sa_notes' = <<>>
            /\ sa_handle' = "open"
            /\ sa_pc' = "auth"
    /\ UNCHANGED <<sa_fn, sa_path, has_pikepdf>>
    /\ UNCHANGED <<pageVars, fsVars, adVars, apVars, mVars, logVars, runVars, calcVars>>

\* lines 258-259
SEC_Auth ==
    /\ sa_pc = "auth"
    /\ sa_fn = "security"
    /\ IF SaDoc.is_encrypted /\ ~SaDoc.accepts_empty_password
       THEN /\ sa_notes' = Append(sa_notes, <<"PDF is encrypted - some checks may be incomplete", "">>)
            /\ auth_failed' = auth_failed \cup {"security"}
       ELSE UNCHANGED <<sa_notes, auth_failed>>
    /\ sa_pc' = "checks"
    /\ UNCHANGED <<sa_fn, sa_path, sa_handle, sa_check, has_pikepdf, sa_findings, accesses>>
    /\ UNCHANGED <<pageVars, fsVars, adVars, apVars, mVars, runVars, calcVars>>

\* lines 261-271: the next check on the open document
SEC_Check ==
    /\ sa_pc = "checks"
    /\ sa_fn = "security"
    /\ sa_check < Len(SecurityChecks)
    /\ sa_check' = sa_check + 1
    /\ sa_findings' = Assign(sa_findings, SecurityCheckResult(content, SecurityChecks[sa_check + 1]))
    /\ accesses' = LogAccess(SaDoc, "security", SecurityChecks[sa_check + 1])
    /\ UNCHANGED <<sa_pc, sa_fn, sa_path, sa_handle, sa_notes, has_pikepdf, auth_failed>>
    /\ UNCHANGED <<pageVars, fsVars, adVars, apVars, mVars, runVars, calcVars>>

\* line 273
SEC_Close ==
    /\ sa_pc = "checks"
    /\ sa_fn = "security"
    /\ sa_check = Len(SecurityChecks)
    /\ sa_handle' = "closed"
    /\ sa_pc' = "pike"
    /\ UNCHANGED <<sa_fn, sa_path, sa_check, sa_notes, has_pikepdf, sa_findings>>
    /\ UNCHANGED <<pageVars, fsVars, adVars, apVars, mVars, logVars, runVars, calcVars>>

\* lines 275-281: the checks that reopen the file with pikepdf
SEC_Pike ==
    /\ sa_pc = "pike"
    /\ sa_fn = "security"
    /\ IF has_pikepdf
       THEN /\ accesses' = LogAccess(SaDoc, "security", "pikepdf")
            /\ sa_findings' = Assign(sa_findings, SecurityPikeResult(content))
            /\ UNCHANGED sa_notes
       ELSE /\ sa_notes' = Append(sa_notes, <<"pikepdf not available - some checks skipped", "">>)
            /\ UNCHANGED <<accesses, sa_findings>>
    /\ sa_pc' = "incremental"
    /\ UNCHANGED <<sa_fn, sa_path, sa_handle, sa_check, has_pikepdf, auth_failed>>
    /\ UNCHANGED <<pageVars, fsVars, adVars, apVars, mVars, runVars, calcVars>>

\* line 284: check_incremental_updates reads the file's last bytes
SEC_Incremental ==
    /\ sa_pc = "incremental"
    /\ sa_fn = "security"
    /\ sa_pc' = "return"
    /\ sa_findings' = Assign(sa_findings, IncrementalResult(content))
    /\ UNCHANGED <<sa_fn, sa_path, sa_handle, sa_check, sa_notes, has_pikepdf>>
    /\ UNCHANGED <<pageVars, fsVars, adVars, apVars, mVars, logVars, runVars, calcVars>>

\* line 289
SEC_Return ==
    /\ sa_pc = "return"
    /\ sa_fn = "security"
    /\ sa_pc' = "done"
    /\ UNCHANGED <<sa_fn, sa_path, sa_handle, sa_check, sa_notes, has_pikepdf, sa_findings>>
    /\ UNCHANGED <<pageVars, fsVars, adVars, apVars, mVars, logVars, runVars, calcVars>>

AuditPdfSecurityStep ==
    SEC_Open \/ SEC_Auth \/ SEC_Check \/ SEC_Close \/ SEC_Pike \/ SEC_Incremental \/ SEC_Return

(***************************************************************************)
(* audit_pdf_advanced (pdf_security_audit_advanced.py)                     *)
(***************************************************************************)
\* the checks made on the open fitz document, in call order (lines 551-592)
AdvancedChecks ==
    <<"metadata", "hidden_text", "attachments", "attachment_names", "annotations",
      "annotation_types", "reviewer_info", "forms", "ocr_layer", "external_links",
      "signatures", "watermarks">>

\* lines 540-546
ADV_Open ==
    /\ sa_pc = "open"
    /\ sa_fn = "advanced"
    /\ sa_check' = 0
    /\ sa_findings' = NoFindings
    /\ IF SaDoc.open_exc # "none"
       THEN /\ sa_notes' = <<<<"Error during audit: ", SaDoc.open_exc>>>>
            /\ sa_handle' = "none"
            /\ sa_pc' = "return"
       ELSE /\ sa_notes' = <<>>
            /\ sa_handle' = "open"
            /\ sa_pc' = "auth"
    /\ UNCHANGED <<sa_fn, sa_path, has_pikepdf>>
    /\ UNCHANGED <<pageVars, fsVars, adVars, apVars, mVars, logVars, runVars, calcVars>>

\* lines 548-549
ADV_Auth ==
    /\ sa_pc = "auth"
    /\ sa_fn = "advanced"
    /\ IF SaDoc.is_encrypted /\ ~SaDoc.accepts_empty_password
       THEN /\ sa_notes' = Append(sa_notes, <<"PDF is encrypted - some checks incomplete", "">>)
            /\ auth_failed' = auth_failed \cup {"advanced"}
       ELSE UNCHANGED <<sa_notes, auth_failed>>
    /\ sa_pc' = "checks"
    /\ UNCHANGED <<sa_fn, sa_path, sa_handle, sa_check, has_pikepdf, sa_findings, accesses>>
    /\ UNCHANGED <<pageVars, fsVars, adVars, apVars, mVars, runVars, calcVars>>

\* lines 551-592: the next check on the open document
ADV_Check ==
    /\ sa_pc = "checks"
    /\ sa_fn = "advanced"
    /\ sa_check < Len(AdvancedChecks)
    /\ sa_check' = sa_check + 1
    /\ sa_findings' = Assign(sa_findings, AdvancedCheckResult(content, AdvancedChecks[sa_check + 1]))
    /\ accesses' = LogAccess(SaDoc, "advanced", AdvancedChecks[sa_check + 1])
    /\ UNCHANGED <<sa_pc, sa_fn, sa_path, sa_handle, sa_notes, has_pikepdf, auth_failed>>
    /\ UNCHANGED <<pageVars, fsVars, adVars, apVars, mVars, runVars, calcVars>>

\* line 594
ADV_Close ==
    /\ sa_pc = "checks"
    /\ sa_fn = "advanced"
    /\ sa_check = Len(AdvancedChecks)
    /\ sa_handle' = "closed"
    /\ sa_pc' = "pike"
    /\ UNCHANGED <<sa_fn, sa_path, sa_check, sa_notes, has_pikepdf, sa_findings>>
    /\ UNCHANGED <<pageVars, fsVars, adVars, apVars, mVars, logVars, runVars, calcVars>>

\* lines 596-625
ADV_Pike ==
    /\ sa_pc = "pike"
    /\ sa_fn = "advanced"
    /\ IF has_pikepdf
       THEN /\ accesses' = LogAccess(SaDoc, "advanced", "pikepdf")
            /\ sa_findings' = Assign(sa_findings, AdvancedPikeResult(content))
            /\ UNCHANGED sa_notes
       ELSE /\ sa_notes' = Append(sa_notes, <<"pikepdf not available - advanced checks skipped", "">>)
            /\ UNCHANGED <<accesses, sa_findings>>
    /\ sa_pc' = "incremental"
    /\ UNCHANGED <<sa_fn, sa_path, sa_handle, sa_check, has_pikepdf, auth_failed>>
    /\ UNCHANGED <<pageVars, fsVars, adVars, apVars, mVars, runVars, calcVars>>

\* lines 627-638: incremental updates, then the risk score
ADV_Incremental ==
    /\ sa_pc = "incremental"
    /\ sa_fn = "advanced"
    /\ sa_pc' = "return"
    /\ LET found == Assign(sa_findings, IncrementalResult(content))
       IN  sa_findings' = [found EXCEPT !.risk_score = calculate_risk_score(found)]
    /\ UNCHANGED <<sa_fn, sa_path, sa_handle, sa_check, sa_notes, has_pikepdf>>
    /\ UNCHANGED <<pageVars, fsVars, adVars, apVars, mVars, logVars, runVars, calcVars>>

\* line 643
ADV_Return ==
    /\ sa_pc = "return"
    /\ sa_fn = "advanced"
    /\ sa_pc' = "done"
    /\ UNCHANGED <<sa_fn, sa_path, sa_handle, sa_check, sa_notes, has_pikepdf, sa_findings>>
    /\ UNCHANGED <<pageVars, fsVars, adVars, apVars, mVars, logVars, runVars, calcVars>>

AuditPdfAdvancedStep ==
    ADV_Open \/ ADV_Auth \/ ADV_Check \/ ADV_Close \/ ADV_Pike \/ ADV_Incremental \/ ADV_Return

(***************************************************************************)
(* A run on one document: a direct call of one of the three audits, or     *)
(* main of the wrapper pdf_redaction_audit.py, which runs the overlay      *)
(* audit and then, unless --no-security-audit, the advanced audit.         *)
(***************************************************************************)
DocPath == <<"a.pdf">>

\* a caller invoking audit_pdf / audit_pdf_security / audit_pdf_advanced
DirectCall ==
    /\ m_pc = "start"
    /\ entry \in {"audit_pdf", "audit_pdf_security", "audit_pdf_advanced"}
    /\ DocPath \in DOMAIN fs
    /\ IF entry = "audit_pdf"
       THEN /\ ap_pc' = "open"
            /\ ap_path' = DocPath
            /\ UNCHANGED <<sa_pc, sa_fn, sa_path>>
       ELSE /\ sa_pc' = "open"
            /\ sa_fn' = IF entry = "audit_pdf_security" THEN "security" ELSE "advanced"
            /\ sa_path' = DocPath
            /\ UNCHANGED <<ap_pc, ap_path>>
    /\ m_pc' = "called"
    /\ UNCHANGED <<entry, include_security, output>>
    /\ UNCHANGED <<ap_handle, ap_total_pages, ap_flagged, ap_error, ap_page_idx, ap_report>>
    /\ UNCHANGED <<sa_handle, sa_check, sa_notes, has_pikepdf, sa_findings>>
    /\ UNCHANGED <<pageVars, fsVars, adVars, logVars, runVars, calcVars>>

\* pdf_redaction_audit.py lines 58-71: validate the path, start the overlay audit
M_Validate ==
    /\ entry = "main"
    /\ m_pc = "start"
    /\ IF DocPath \notin DOMAIN fs
       THEN /\ m_pc' = "exit1"
            /\ UNCHANGED <<ap_pc, ap_path>>
       ELSE /\ m_pc' = "overlay"
            /\ ap_pc' = "open"
            /\ ap_path' = DocPath
    /\ UNCHANGED <<entry, include_security, output>>
    /\ UNCHANGED <<ap_handle, ap_total_pages, ap_flagged, ap_error, ap_page_idx, ap_report>>
    /\ UNCHANGED <<pageVars, fsVars, adVars, saVars, logVars, runVars, calcVars>>

\* lines 73-78: audit_pdf has returned; the advanced audit runs if requested
M_AfterOverlay ==
    /\ entry = "main"
    /\ m_pc = "overlay"
    /\ ap_pc = "done"
    /\ IF include_security
       THEN /\ m_pc' = "security"
            /\ sa_pc' = "open"
            /\ sa_fn' = "advanced"
            /\ sa_path' = DocPath
       ELSE /\ m_pc' = "output"
            /\ UNCHANGED <<sa_pc, sa_fn, sa_path>>
    /\ UNCHANGED <<entry, include_security, output>>
    /\ UNCHANGED <<sa_handle, sa_check, sa_notes, has_pikepdf, sa_findings>>
    /\ UNCHANGED <<pageVars, fsVars, adVars, apVars, logVars, runVars, calcVars>>

\* lines 79-84: audit_pdf_advanced has returned; the overlay risk is set
\* from the overlay report
M_AfterSecurity ==
    /\ entry = "main"
    /\ m_pc = "security"
    /\ sa_pc = "done"
    /\ LET report == ap_report[1]
       IN  sa_findings' =
               IF report.flagged_pages # <<>>
               THEN [sa_findings EXCEPT !.overlay_risk = "YES"]
               ELSE IF Len(report.flagged_pages) = 0 /\ report.total_pages > 0
               THEN [sa_findings EXCEPT !.overlay_risk = "NO"]
               ELSE sa_findings
    /\ m_pc' = "output"
    /\ UNCHANGED <<entry, include_security, output>>
    /\ UNCHANGED <<sa_pc, sa_fn, sa_path, sa_handle, sa_check, sa_notes, has_pikepdf>>
    /\ UNCHANGED <<pageVars, fsVars, adVars, apVars, logVars, runVars, calcVars>>

\* lines 119-163: the "security" object of the output
SecurityJson(findings, notes) ==
    [k \in DOMAIN findings \cup {"notes"} |-> IF k = "notes" THEN notes ELSE findings[k]]

\* lines 94-165: the JSON output
M_Output ==
    /\ entry = "main"
    /\ m_pc = "output"
    /\ LET report == ap_report[1]
       IN  output' = Some(
               [summary |-> [total_pdfs |-> 1,
                             total_pages |-> report.total_pages,
                             pdfs_with_risks |-> IF report.flagged_pages # <<>> THEN 1 ELSE 0,
                             total_flagged_pages |-> Len(report.flagged_pages)],
                reports |-> <<[filename |-> report.filename,
                               total_pages |-> report.total_pages,
                               error |-> report.error,
                               flagged_pages |-> report.flagged_pages,
                               security |-> IF include_security
                                            THEN Some(SecurityJson(sa_findings, sa_notes))
                                            ELSE None]>>])
    /\ m_pc' = "exit0"
    /\ UNCHANGED <<entry, include_security>>
    /\ UNCHANGED <<pageVars, fsVars, adVars, apVars, saVars, logVars, runVars, calcVars>>

MainStep == M_Validate \/ M_AfterOverlay \/ M_AfterSecurity \/ M_Output

\* what the document under audit may hold
ContentPool ==
    { NoContent,
      Content({"has_hidden_text", "has_javascript"}, <<>>, <<>>, {}),
      Content({"has_forms", "has_external_links", "has_remote_resources"},
              <<<<"author", <<"Alice", "Smith">>>>, <<"title", <<>>>>>>, <<"reviewer">>, {}),
      Content({"has_forms"}, <<<<"author", <<"Alice", "Smith">>>>>>, <<>>, {"metadata"}),
      Content({"has_hidden_text", "has_attachments"}, <<>>, <<>>, {"hidden_text"}) }

DocInit ==
    /\ PageOff
    /\ fs \in { <<>> } \cup { [P \in {DocPath} |-> FileEntry(d)] : d \in DocPool }
    /\ dir_kind = "dir"
    /\ recursive = FALSE
    /\ content \in ContentPool
    /\ ad_pc = "off"
    /\ pdf_files = <<>>
    /\ file_idx = 0
    /\ reports = <<>>
    /\ ap_pc = "idle"
    /\ ap_path = <<>>
    /\ ap_handle = "none"
    /\ ap_total_pages = 0
    /\ ap_flagged = <<>>
    /\ ap_error = None
    /\ ap_page_idx = 0
    /\ ap_report = None
    /\ auth_failed = {}
    /\ accesses = {}
    /\ sa_pc = "idle"
    /\ sa_fn \in {"security", "advanced"}
    /\ sa_path = <<>>
    /\ sa_handle = "none"
    /\ sa_check = 0
    /\ sa_notes = <<>>
    /\ sa_findings = NoFindings
    /\ has_pikepdf \in BOOLEAN
    /\ entry \in {"audit_pdf", "audit_pdf_security", "audit_pdf_advanced", "main"}
    /\ include_security \in BOOLEAN
    /\ m_pc = "start"
    /\ output = None
    /\ RunOff

DocNext ==
    DirectCall \/ MainStep \/ AuditPdfStep \/ AuditPdfSecurityStep \/ AuditPdfAdvancedStep

SpecDoc == DocInit /\ [][DocNext]_vars

(***************************************************************************)
(* A corpus run that the user may interrupt.                               *)
(*   scan_directory (scan_court_records_advanced.py) audits every PDF of a *)
(*   directory with audit_pdf_advanced and then writes the CSV.            *)
(*   main of overlay_checker.py, run as `DIR --json --output FILE`, calls  *)
(*   audit_directory and then writes FILE with Path.write_text.            *)
(* out_file holds the number of records written to the report file so far. *)
(***************************************************************************)
\* the records of the complete report: the CSV header and one row per
\* document, or one JSON record per report
ReportRecords ==
    IF tool = "scan_directory" THEN 1 + Len(pdf_files) ELSE Len(reports)

\* the documents whose audit has been started so far
DocsLaunched ==
    IF tool = "scan_directory"
    THEN sd_i + (IF sa_pc # "idle" THEN 1 ELSE 0)
    ELSE Len(reports) + (IF ap_pc # "idle" THEN 1 ELSE 0)

\* scan_court_records_advanced.py lines 30-41 and 71-90
SD_Start ==
    /\ tool = "scan_directory"
    /\ run_pc = "start"
    /\ IF dir_kind # "dir"
       THEN /\ run_pc' = "returned"
            /\ UNCHANGED pdf_files
       ELSE /\ pdf_files' = SortedSeq(Glob(fs, FALSE))
            /\ run_pc' = IF Glob(fs, FALSE) = {} THEN "returned" ELSE "loop"
    /\ sd_i' = 0
    /\ results' = <<>>
    /\ UNCHANGED <<tool, args, out_file, interrupt, pdf_paths, security_paths>>
    /\ UNCHANGED <<ad_pc, file_idx, reports>>
    /\ UNCHANGED <<pageVars, fsVars, apVars, saVars, mVars, logVars, calcVars>>

\* lines 92-116: the next document of the loop: findings = audit_pdf_advanced(..)
SD_Launch ==
    /\ tool = "scan_directory"
    /\ run_pc = "loop"
    /\ sd_i < Len(pdf_files)
    /\ sa_pc' = "open"
    /\ sa_fn' = "advanced"
    /\ sa_path' = pdf_files[sd_i + 1]
    /\ run_pc' = "audit"
    /\ UNCHANGED <<tool, args, sd_i, results, out_file, interrupt, pdf_paths, security_paths>>
    /\ UNCHANGED <<sa_handle, sa_check, sa_notes, has_pikepdf, sa_findings>>
    /\ UNCHANGED <<pageVars, fsVars, adVars, apVars, mVars, logVars, calcVars>>

\* lines 118-224: the row of the audited document.  audit_pdf_advanced turns
\* every Exception into a note, so the handler of lines 226-272 has no case.
SD_Collect ==
    /\ tool = "scan_directory"
    /\ run_pc = "audit"
    /\ sa_pc = "done"
    /\ results' = Append(results, [filename |-> PathName(sa_path), notes |-> sa_notes])
    /\ sd_i' = sd_i + 1
    /\ run_pc' = "loop"
    /\ sa_pc' = "idle"
    /\ UNCHANGED <<tool, args, out_file, interrupt, pdf_paths, security_paths>>
    /\ UNCHANGED <<sa_fn, sa_path, sa_handle, sa_check, sa_notes, has_pikepdf, sa_findings>>
    /\ UNCHANGED <<pageVars, fsVars, adVars, apVars, mVars, logVars, calcVars>>

\* line 281: open(output_csv, 'w') creates the file, or truncates it
SD_OpenCsv ==
    /\ tool = "scan_directory"
    /\ run_pc = "loop"
    /\ sd_i = Len(pdf_files)
    /\ out_file' = Some(0)
    /\ run_pc' = "header"
    /\ UNCHANGED <<tool, args, sd_i, results, interrupt, pdf_paths, security_paths>>
    /\ UNCHANGED <<pageVars, fsVars, adVars, apVars, saVars, mVars, logVars, calcVars>>

\* lines 282-284: writer.writeheader()
SD_WriteHeader ==
    /\ tool = "scan_directory"
    /\ run_pc = "header"
    /\ out_file' = IF results # <<>> THEN Some(1) ELSE out_file
    /\ run_pc' = "rows"
    /\ UNCHANGED <<tool, args, sd_i, results, interrupt, pdf_paths, security_paths>>
    /\ UNCHANGED <<pageVars, fsVars, adVars, apVars, saVars, mVars, logVars, calcVars>>

\* line 285: writer.writerows(results), one row at a time
SD_WriteRow ==
    /\ tool = "scan_directory"
    /\ run_pc = "rows"
    /\ out_file[1] < 1 + Len(results)
    /\ out_file' = Some(out_file[1] + 1)
    /\ UNCHANGED <<tool, args, run_pc, sd_i, results, interrupt, pdf_paths, security_paths>>
    /\ UNCHANGED <<pageVars, fsVars, adVars, apVars, saVars, mVars, logVars, calcVars>>

\* the end of the with block of line 281, then the statistics of lines 287-324
SD_CloseCsv ==
    /\ tool = "scan_directory"
    /\ run_pc = "rows"
    /\ out_file[1] = 1 + Len(results)
    /\ run_pc' = "returned"
    /\ UNCHANGED <<tool, args, sd_i, results, out_file, interrupt, pdf_paths, security_paths>>
    /\ UNCHANGED <<pageVars, fsVars, adVars, apVars, saVars, mVars, logVars, calcVars>>

ScanDirectoryStep ==
    SD_Start \/ SD_Launch \/ SD_Collect \/ SD_OpenCsv \/ SD_WriteHeader \/ SD_WriteRow
        \/ SD_CloseCsv

\* lines 414-424: the conditions that end in parser.error
ArgsInvalid(a) ==
    \/ a.black_threshold < 0 \/ a.black_threshold > 100
    \/ a.min_overlap_area < 0
    \/ a.min_hits < 1
    \/ a.json /\ a.csv

\* lines 411-424: parse_args, then the validation; parser.error prints the
\* usage and the message and exits the process with status 2
OC_Validate ==
    /\ tool = "overlay_checker"
    /\ run_pc = "start"
    /\ run_pc' = IF ArgsInvalid(args) THEN "exit2" ELSE "input"
    /\ UNCHANGED <<tool, args, sd_i, results, out_file, interrupt, pdf_paths, security_paths>>
    /\ UNCHANGED <<pageVars, fsVars, adVars, apVars, saVars, mVars, logVars, calcVars>>

\* overlay_checker.py lines 426-451: the input path, then audit_directory
OC_Start ==
    /\ tool = "overlay_checker"
    /\ run_pc = "input"
    /\ IF dir_kind = "missing"
       THEN /\ run_pc' = "exit1"
            /\ UNCHANGED ad_pc
       ELSE /\ run_pc' = "audit"
            /\ ad_pc' = "start"
    /\ UNCHANGED <<tool, args, sd_i, results, out_file, interrupt, pdf_paths, security_paths>>
    /\ UNCHANGED <<pdf_files, file_idx, reports>>
    /\ UNCHANGED <<pageVars, fsVars, apVars, saVars, mVars, logVars, calcVars>>

\* lines 455-461: pdf_paths[pdf_file.name] = pdf_file for each file of the
\* listing; of the paths that share a name, the one listed last stays, and
\* the listing comes in the order the directories are read
PdfPathChoices(paths) ==
    { d \in [{ PathName(path) : path \in paths } -> paths] :
        \A name \in DOMAIN d : PathName(d[name]) = name }

\* format_text_report lines 107-113, format_csv_report lines 251-255: the
\* path whose security audit goes with the report
full_path(report, paths) ==
    IF report.error = None /\ report.filename \in DOMAIN paths
    THEN Some(paths[report.filename]) ELSE None

\* lines 452-463: audit_directory has returned; no report ends the run
OC_AfterAudit ==
    /\ tool = "overlay_checker"
    /\ run_pc = "audit"
    /\ ad_pc = "returned"
    /\ pdf_paths' \in PdfPathChoices(Glob(fs, recursive))
    /\ run_pc' = IF reports = <<>> THEN "exit0" ELSE "format"
    /\ UNCHANGED <<tool, args, sd_i, results, out_file, interrupt, security_paths>>
    /\ UNCHANGED <<pageVars, fsVars, adVars, apVars, saVars, mVars, logVars, calcVars>>

RECURSIVE SumSeq(_)
SumSeq(seq) == IF seq = <<>> THEN 0 ELSE Head(seq) + SumSeq(Tail(seq))

\* format_json_report (overlay_checker.py): the data that json.dumps renders
format_json_report(rs) ==
    [tool |-> "PDF Overlay Redaction Risk Checker",
     summary |->
        [total_pdfs |-> Len(rs),
         total_pages |-> SumSeq([i \in 1..Len(rs) |->
                                    IF rs[i].error = None THEN rs[i].total_pages ELSE 0]),
         pdfs_with_risks |-> SumSeq([i \in 1..Len(rs) |->
                                        IF rs[i].flagged_pages # <<>> THEN 1 ELSE 0]),
         total_flagged_pages |-> SumSeq([i \in 1..Len(rs) |-> Len(rs[i].flagged_pages)]),
         pdfs_with_errors |-> SumSeq([i \in 1..Len(rs) |->
                                         IF rs[i].error # None THEN 1 ELSE 0])],
     reports |->
        [i \in 1..Len(rs) |->
            [filename |-> rs[i].filename,
             total_pages |-> rs[i].total_pages,
             error |-> rs[i].error,
             flagged_pages |->
                [k \in 1..Len(rs[i].flagged_pages) |->
                    LET risk == rs[i].flagged_pages[k]
                    IN  [page_number |-> risk.page_number,
                         black_rect_count |-> risk.black_rect_count,
                         overlap_count |-> risk.overlap_count,
                         confidence_score |-> risk.confidence_score,
                         heuristic |-> risk.heuristic]]]]]

\* lines 473-485: output_text = format_json_report(reports), or the CSV or
\* text report, which runs audit_pdf_security on full_path for each report
OC_Format ==
    /\ tool = "overlay_checker"
    /\ run_pc = "format"
    /\ security_paths' = IF args.json THEN <<>>
                          ELSE [i \in 1..Len(reports) |-> full_path(reports[i], pdf_paths)]
    /\ run_pc' = "open_out"
    /\ UNCHANGED <<tool, args, sd_i, results, out_file, interrupt, pdf_paths>>
    /\ UNCHANGED <<pageVars, fsVars, adVars, apVars, saVars, mVars, logVars, calcVars>>

\* line 491: write_text opens the file for writing, which creates or truncates it
OC_OpenOut ==
    /\ tool = "overlay_checker"
    /\ run_pc = "open_out"
    /\ out_file' = Some(0)
    /\ run_pc' = "write"
    /\ UNCHANGED <<tool, args, sd_i, results, interrupt, pdf_paths, security_paths>>
    /\ UNCHANGED <<pageVars, fsVars, adVars, apVars, saVars, mVars, logVars, calcVars>>

\* lines 491-499: write_text writes the text and closes the file; return 0
OC_WriteText ==
    /\ tool = "overlay_checker"
    /\ run_pc = "write"
    /\ out_file' = Some(Len(reports))
    /\ run_pc' = "exit0"
    /\ UNCHANGED <<tool, args, sd_i, results, interrupt, pdf_paths, security_paths>>
    /\ UNCHANGED <<pageVars, fsVars, adVars, apVars, saVars, mVars, logVars, calcVars>>

OverlayCheckerStep == OC_Validate \/ OC_Start \/ OC_AfterAudit \/ OC_Format \/ OC_OpenOut \/ OC_WriteText

\* the checks of audit_pdf_advanced with a bare `except:` around the work done
\* per image or annotation (pdf_security_audit_advanced.py lines 245, 396, 417)
BareExceptChecks == {"ocr_layer", "reviewer_info", "annotation_types"}

\* the run is inside one of the try blocks closed by a bare `except:`
\* (line 459 is the one of check_remote_resources, a pikepdf check)
InBareExcept ==
    /\ tool = "scan_directory"
    /\ run_pc = "audit"
    /\ ~Locked(SaDoc)
    /\ SaDoc.pages # <<>>
    /\ \/ /\ sa_pc = "checks"
          /\ sa_check < Len(AdvancedChecks)
          /\ AdvancedChecks[sa_check + 1] \in BareExceptChecks
       \/ /\ sa_pc = "pike"
          /\ has_pikepdf

RunningPcs == {"loop", "audit", "header", "rows", "format", "open_out", "write"}

\* The user's interrupt while the run is under way.  Python raises
\* KeyboardInterrupt in the main thread wherever it is; no handler of these
\* programs names it and `except Exception` does not catch it, so it ends
\* the process, the with block of line 281 closing the CSV as it is.
InterruptRaised ==
    /\ interrupt = None
    /\ pdf_paths = <<>>
    /\ security_paths = <<>>
    /\ run_pc \in RunningPcs
    /\ interrupt' = Some([at |-> DocsLaunched, outcome |-> "raised"])
    /\ run_pc' = "killed"
    /\ ad_pc' = IF ad_pc = "off" THEN ad_pc ELSE "killed"
    /\ ap_pc' = IF ap_pc = "idle" THEN ap_pc ELSE "killed"
    /\ sa_pc' = IF sa_pc = "idle" THEN sa_pc ELSE "killed"
    /\ UNCHANGED <<tool, args, sd_i, results, out_file, pdf_paths, security_paths>>
    /\ UNCHANGED <<pdf_files, file_idx, reports>>
    /\ UNCHANGED <<ap_path, ap_handle, ap_total_pages, ap_flagged, ap_error, ap_page_idx, ap_report>>
    /\ UNCHANGED <<sa_fn, sa_path, sa_handle, sa_check, sa_notes, has_pikepdf, sa_findings>>
    /\ UNCHANGED <<pageVars, fsVars, mVars, logVars, calcVars>>

\* The interrupt landing inside a bare `except:`, which catches it and passes
InterruptSwallowed ==
    /\ interrupt = None
    /\ pdf_paths = <<>>
    /\ security_paths = <<>>
    /\ InBareExcept
    /\ interrupt' = Some([at |-> DocsLaunched, outcome |-> "swallowed"])
    /\ UNCHANGED <<tool, args, run_pc, sd_i, results, out_file, pdf_paths, security_paths>>
    /\ UNCHANGED <<pageVars, fsVars, adVars, apVars, saVars, mVars, logVars, calcVars>>

KeyboardInterrupt == InterruptRaised \/ InterruptSwallowed

\* documents and directories of the interrupted corpora
RunDocs ==
    { Doc("FileDataError", FALSE, FALSE, <<>>),
      Doc("none", TRUE, FALSE, <<Some(RiskyPage), Some(CleanPage)>>),
      Doc("none", FALSE, FALSE, <<Some(CleanPage), Some(RiskyPage)>>) }
RunPaths == { <<"a.pdf">>, <<"b.pdf">>, <<"c.pdf">>, <<"n.txt">> }
RunFileSystems ==
    UNION { [P -> { FileEntry(d) : d \in RunDocs }] :
              P \in { Q \in SUBSET RunPaths : Cardinality(Q) <= MaxFiles } }

\* a directory tree in which two files share their name
NestedFileSystems ==
    [{ <<"a.pdf">>, <<"m", "a.pdf">> } -> { FileEntry(d) : d \in RunDocs }]

\* command lines: the defaults, and one option out of range at a time
ArgsPool ==
    { DefaultArgs,
      Args(101, 40, 1, TRUE, FALSE),
      Args(0 - 1, 40, 1, TRUE, FALSE),
      Args(15, 0 - 1, 1, TRUE, FALSE),
      Args(15, 40, 0, TRUE, FALSE),
      Args(15, 40, 1, TRUE, TRUE),
      Args(15, 40, 1, FALSE, TRUE),
      Args(15, 40, 1, FALSE, FALSE) }

RunInit ==
    /\ PageOff
    /\ fs \in RunFileSystems \cup NestedFileSystems
    /\ dir_kind \in {"dir", "missing"}
    /\ dir_kind # "dir" => fs = <<>>
    /\ recursive \in BOOLEAN
    /\ content = NoContent
    /\ ad_pc = "off"
    /\ pdf_files = <<>>
    /\ file_idx = 0
    /\ reports = <<>>
    /\ ap_pc = "idle"
    /\ ap_path = <<>>
    /\ ap_handle = "none"
    /\ ap_total_pages = 0
    /\ ap_flagged = <<>>
    /\ ap_error = None
    /\ ap_page_idx = 0
    /\ ap_report = None
    /\ auth_failed = {}
    /\ accesses = {}
    /\ sa_pc = "idle"
    /\ sa_fn = "advanced"
    /\ sa_path = <<>>
    /\ sa_handle = "none"
    /\ sa_check = 0
    /\ sa_notes = <<>>
    /\ sa_findings = NoFindings
    /\ has_pikepdf \in BOOLEAN
    /\ entry = "off"
    /\ include_security = FALSE
    /\ m_pc = "start"
    /\ output = None
    /\ tool \in {"scan_directory", "overlay_checker"}
    /\ tool = "overlay_checker" => has_pikepdf = FALSE
    /\ args \in ArgsPool
    /\ tool = "scan_directory" => args = DefaultArgs
    /\ tool = "scan_directory" => (recursive = FALSE /\ fs \in RunFileSystems)
    /\ run_pc = "start"
    /\ sd_i = 0
    /\ results = <<>>
    /\ out_file = None
    /\ interrupt = None
    /\ pdf_paths = <<>>
    /\ security_paths = <<>>
    /\ call = None
    /\ ret = None

RunNext ==
    ScanDirectoryStep \/ OverlayCheckerStep \/ KeyboardInterrupt
        \/ AuditDirectoryStep \/ AuditPdfStep \/ AuditPdfAdvancedStep

SpecRun == RunInit /\ [][RunNext]_vars

(***************************************************************************)
(* Single calls of the pure functions on arguments drawn from small pools. *)
(* call names the function and its arguments; the call's action applies    *)
(* the function and stores the result in ret.                              *)
(***************************************************************************)
\* a sequence with x put in after its first k elements
InsertAt(seq, k, x) == SubSeq(seq, 1, k) \o <<x>> \o SubSeq(seq, k + 1, Len(seq))

\* fills for the confidence score: a wide strip, a strip within a quarter
\* point of it that is no longer wider than 3 x its height, and three squares
ScoreFillPool ==
    { Drawing(Black, RectQ(0, 0, 160, 53)),
      Drawing(Black, RectQ(0, 0, 160, 54)),
      Drawing(Black, Rect(0, 0, 20, 20)),
      Drawing(Black, Rect(100, 100, 120, 120)),
      Drawing(Black, Rect(0, 30, 20, 50)) }
ScoreSpanPool == << Rect(5, 5, 10, 10), Rect(105, 105, 110, 110) >>

ScorePages ==
    { [rect |-> PageRect, drawings |-> Some(d), spans |-> Some(Spans(SubSeqOf(ScoreSpanPool, S)))] :
        d \in { x \in SeqsUpTo(ScoreFillPool, MaxFills) : Distinct(x) },
        S \in SUBSET { ScoreSpanPool[i] : i \in 1..Len(ScoreSpanPool) } }

\* the pages made from pg by one more fill, at any place in the drawing
\* order, or by one more span
MorePages(pg) ==
    { [pg EXCEPT !.drawings = Some(InsertAt(pg.drawings[1], k, f))] :
        k \in 0..Len(pg.drawings[1]), f \in ScoreFillPool }
    \cup
    { [pg EXCEPT !.spans = Some(Append(pg.spans[1], Span(ScoreSpanPool[i], "text")))] :
        i \in 1..Len(ScoreSpanPool) }

\* audit_page on a page and on the same page with one more fill or span
AuditPagePairCalls ==
    UNION { { [fn |-> "audit_page", page |-> pg, more |-> pg2,
               min_overlap_area |-> 40, min_hits |-> h] :
                pg2 \in MorePages(pg), h \in 1..MaxMinHits } :
            pg \in ScorePages }

AuditPagePairCall ==
    /\ call.fn = "audit_page"
    /\ ret = None
    /\ ret' = Some(<<audit_page(call.page, 1, DefaultBlackThreshold,
                                call.min_overlap_area, call.min_hits),
                     audit_page(call.more, 1, DefaultBlackThreshold,
                                call.min_overlap_area, call.min_hits)>>)
    /\ UNCHANGED call
    /\ UNCHANGED <<pageVars, fsVars, adVars, apVars, saVars, mVars, logVars>>
    /\ UNCHANGED <<tool, args, run_pc, sd_i, results, out_file, interrupt, pdf_paths, security_paths>>

\* the findings the score ranges over
ScoredFindings ==
    [ has_hidden_text : BOOLEAN, overlay_risk : {"NO", "MAYBE", "YES"},
      has_signatures : BOOLEAN, has_javascript : BOOLEAN,
      has_external_links : BOOLEAN, has_remote_resources : BOOLEAN,
      has_metadata : BOOLEAN, has_attachments : BOOLEAN,
      reviewer_names : {<<>>, <<"reviewer">>}, has_ocr_layer : BOOLEAN,
      incremental_updates : BOOLEAN, has_forms : BOOLEAN,
      has_thumbnails : BOOLEAN, has_structure_tags : BOOLEAN ]

RiskScoreCalls == { [fn |-> "calculate_risk_score", findings |-> f] : f \in ScoredFindings }

RiskScoreCall ==
    /\ call.fn = "calculate_risk_score"
    /\ ret = None
    /\ ret' = Some(calculate_risk_score(call.findings))
    /\ UNCHANGED call
    /\ UNCHANGED <<pageVars, fsVars, adVars, apVars, saVars, mVars, logVars>>
    /\ UNCHANGED <<tool, args, run_pc, sd_i, results, out_file, interrupt, pdf_paths, security_paths>>

(***************************************************************************)
(* is_color_black on one colour at two thresholds.                         *)
(***************************************************************************)
ComponentValues == {0, 16, 85, 100}
Thresholds == {0, 15, 16, 100}
Colors == SeqsUpTo(ComponentValues, MaxComponents)

IsColorBlackCalls ==
    { [fn |-> "is_color_black", color |-> c, threshold |-> t, higher |-> h] :
        c \in Colors, t \in Thresholds, h \in Thresholds }

IsColorBlackCall ==
    /\ call.fn = "is_color_black"
    /\ ret = None
    /\ ret' = Some(<<is_color_black(call.color, call.threshold),
                     is_color_black(call.color, call.higher)>>)
    /\ UNCHANGED call
    /\ UNCHANGED <<pageVars, fsVars, adVars, apVars, saVars, mVars, logVars>>
    /\ UNCHANGED <<tool, args, run_pc, sd_i, results, out_file, interrupt, pdf_paths, security_paths>>

(***************************************************************************)
(* compute_overlap_area on two rectangles, in both orders.                 *)
(***************************************************************************)
\* intervals <<lo, hi>> in points: overlapping, nested, touching, disjoint,
\* degenerate (lo = hi) and inverted (lo > hi)
XIntervals == {<<0, 20>>, <<10, 30>>, <<20, 30>>, <<5, 15>>, <<10, 10>>, <<30, 10>>}
YIntervals == {<<0, 20>>, <<5, 15>>, <<20, 30>>, <<10, 10>>}
OverlapRects == { Rect(x[1], y[1], x[2], y[2]) : x \in XIntervals, y \in YIntervals }

OverlapAreaCalls ==
    { [fn |-> "compute_overlap_area", rect1 |-> a, rect2 |-> b] :
        a \in OverlapRects, b \in OverlapRects }

OverlapAreaCall ==
    /\ call.fn = "compute_overlap_area"
    /\ ret = None
    /\ ret' = Some(<<compute_overlap_area(call.rect1, call.rect2),
                     compute_overlap_area(call.rect2, call.rect1)>>)
    /\ UNCHANGED call
    /\ UNCHANGED <<pageVars, fsVars, adVars, apVars, saVars, mVars, logVars>>
    /\ UNCHANGED <<tool, args, run_pc, sd_i, results, out_file, interrupt, pdf_paths, security_paths>>

(***************************************************************************)
(* extract_black_rectangles on one page.                                   *)
(***************************************************************************)
\* fills: black squares a quarter point apart, a thin rule, a page-wide
\* background, a white and a grey square, and a path whose rectangles are
\* among its items
ExtractDrawingPool ==
    { Drawing(Black, Rect(0, 0, 20, 20)),
      Drawing(Black, RectQ(1, 1, 81, 81)),
      [fill |-> Black, rect |-> Some(RectQ(2, 2, 82, 82)),
       items |-> <<RectQ(1, 1, 81, 81), RectQ(0, 0, 80, 80)>>],
      Drawing(Black, Rect(0, 0, 100, 1)),
      Drawing(Black, Rect(0, 0, 612, 792)),
      Drawing(White, Rect(0, 0, 20, 20)),
      Drawing(<<16, 16, 16>>, Rect(0, 0, 20, 20)),
      [fill |-> <<0>>, rect |-> None, items |-> <<Rect(30, 30, 50, 50), Rect(0, 0, 1, 1)>>] }

ExtractCalls ==
    { [fn |-> "extract_black_rectangles",
       page |-> [rect |-> PageRect, drawings |-> Some(d), spans |-> Some(<<>>)]] :
        d \in SeqsUpTo(ExtractDrawingPool, MaxFills) }

ExtractCall ==
    /\ call.fn = "extract_black_rectangles"
    /\ ret = None
    /\ ret' = Some(extract_black_rectangles(call.page, DefaultBlackThreshold))
    /\ UNCHANGED call
    /\ UNCHANGED <<pageVars, fsVars, adVars, apVars, saVars, mVars, logVars>>
    /\ UNCHANGED <<tool, args, run_pc, sd_i, results, out_file, interrupt, pdf_paths, security_paths>>

(***************************************************************************)
(* check_hidden_text (pdf_security_audit_advanced.py) on a document's      *)
(* pages.  A page is None when it cannot be loaded, else Some([rect,       *)
(* spans]); spans is None when get_text raises; a span is [color, bbox],   *)
(* color the sRGB integer 65536 R + 256 G + B.                             *)
(***************************************************************************)
\* line 168: color > 16710886
WhiteColorBound == 16710886
\* lines 176-177: 100 points beyond the page
OffPageMargin == 100

ColorSpan(color, bbox) == [color |-> color, bbox |-> bbox]

SpanIsWhite(span) == span.color > WhiteColorBound

SpanIsOffPage(span, page_rect) ==
    \/ span.bbox[1] < page_rect[1] - UnitsPerPoint * OffPageMargin
    \/ span.bbox[2] < page_rect[2] - UnitsPerPoint * OffPageMargin
    \/ span.bbox[3] > page_rect[3] + UnitsPerPoint * OffPageMargin
    \/ span.bbox[4] > page_rect[4] + UnitsPerPoint * OffPageMargin

\* lines 163-183: one span; acc holds the three lists and the page's two flags
ScanSpan(acc, span, page_num, page_rect) ==
    LET a1 == IF SpanIsWhite(span)
              THEN [acc EXCEPT
                      !.white_on_white_pages =
                          IF acc.white_on_white_found THEN @ ELSE Append(@, page_num),
                      !.white_on_white_found = TRUE,
                      !.hidden_types =
                          IF \E i \in 1..Len(@) : @[i] = "white-on-white text"
                          THEN @ ELSE Append(@, "white-on-white text")]
              ELSE acc
    IN  IF SpanIsOffPage(span, page_rect)
        THEN [a1 EXCEPT
                !.offpage_pages = IF a1.offpage_found THEN @ ELSE Append(@, page_num),
                !.offpage_found = TRUE,
                !.hidden_types =
                    IF \E i \in 1..Len(@) : @[i] = "off-page text"
                    THEN @ ELSE Append(@, "off-page text")]
        ELSE a1

RECURSIVE ScanSpans(_, _, _, _)
ScanSpans(acc, spans, page_num, page_rect) ==
    IF spans = <<>> THEN acc
    ELSE ScanSpans(ScanSpan(acc, Head(spans), page_num, page_rect), Tail(spans),
                   page_num, page_rect)

\* lines 146-183: the pages from page_num on
RECURSIVE ScanPages(_, _, _)
ScanPages(acc, pages, page_num) ==
    IF page_num > Len(pages) THEN acc
    ELSE LET pg == pages[page_num][1]
             fresh == [acc EXCEPT !.white_on_white_found = FALSE, !.offpage_found = FALSE]
         IN  ScanPages(ScanSpans(fresh, pg.spans[1], page_num, pg.rect), pages, page_num + 1)

HiddenTextResult(has_hidden, hidden_types, white_on_white_pages, offpage_pages) ==
    [has_hidden_text |-> has_hidden, hidden_text_types |-> hidden_types,
     white_on_white_pages |-> white_on_white_pages, offpage_text_pages |-> offpage_pages]

\* a page that cannot be loaded or whose get_text raises
PageUnreadable(p) == p = None \/ p[1].spans = None

check_hidden_text(pages) ==
    IF \E n \in 1..Len(pages) : PageUnreadable(pages[n])
    THEN HiddenTextResult(FALSE, <<>>, <<>>, <<>>)
    ELSE LET acc == ScanPages([hidden_types |-> <<>>, white_on_white_pages |-> <<>>,
                               offpage_pages |-> <<>>, white_on_white_found |-> FALSE,
                               offpage_found |-> FALSE], pages, 1)
         IN  HiddenTextResult(Len(acc.hidden_types) > 0, acc.hidden_types,
                              acc.white_on_white_pages, acc.offpage_pages)

\* the integer of an sRGB colour
Srgb(r, g, b) == 65536 * r + 256 * g + b

ColorPage(spans) == [rect |-> PageRect, spans |-> spans]
HiddenPagePool ==
    { None,
      Some(ColorPage(None)),
      Some(ColorPage(Some(<<ColorSpan(0, Rect(5, 5, 10, 10))>>))),
      Some(ColorPage(Some(<<ColorSpan(Srgb(255, 255, 255), Rect(5, 5, 10, 10)),
                            ColorSpan(Srgb(255, 255, 255), Rect(15, 5, 20, 10))>>))),
      Some(ColorPage(Some(<<ColorSpan(Srgb(255, 0, 0), Rect(5, 5, 10, 10))>>))),
      Some(ColorPage(Some(<<ColorSpan(0, Rect(0 - 150, 5, 0 - 140, 10)),
                            ColorSpan(Srgb(255, 255, 255), Rect(5, 5, 10, 10))>>))),
      Some(ColorPage(Some(<<ColorSpan(Srgb(255, 255, 255), Rect(5, 900, 10, 910))>>))),
      Some(ColorPage(Some(<<ColorSpan(Srgb(253, 253, 253), Rect(5, 5, 10, 10)),
                            ColorSpan(WhiteColorBound, Rect(0 - 100, 5, 10, 10))>>))) }

HiddenTextCalls ==
    { [fn |-> "check_hidden_text", pages |-> ps] : ps \in SeqsUpTo(HiddenPagePool, MaxPages) }

HiddenTextCall ==
    /\ call.fn = "check_hidden_text"
    /\ ret = None
    /\ ret' = Some(check_hidden_text(call.pages))
    /\ UNCHANGED call
    /\ UNCHANGED <<pageVars, fsVars, adVars, apVars, saVars, mVars, logVars>>
    /\ UNCHANGED <<tool, args, run_pc, sd_i, results, out_file, interrupt, pdf_paths, security_paths>>

(***************************************************************************)
(* pdf_security_audit_advanced.py, check_ocr_layer: a document is a        *)
(* sequence of pages.  A page is None when get_images or get_text raises,  *)
(* else Some([images, text]); images is the sequence of the page's images, *)
(* each None when extract_image raises, else Some([width, height]) in      *)
(* pixels; text is the sequence of the characters get_text returns.        *)
(***************************************************************************)
Whitespace == {" ", "\n"}

\* str.strip(): leading and trailing whitespace removed
RECURSIVE LStrip(_)
LStrip(text) ==
    IF text # <<>> /\ Head(text) \in Whitespace THEN LStrip(Tail(text)) ELSE text

RECURSIVE RStrip(_)
RStrip(text) ==
    IF text # <<>> /\ text[Len(text)] \in Whitespace
    THEN RStrip(SubSeq(text, 1, Len(text) - 1)) ELSE text

Strip(text) == RStrip(LStrip(text))

\* line 243: width > 1000 and height > 1000
LargeImageSide == 1000

Image(width, height) == Some([width |-> width, height |-> height])
OcrPage(images, text) == Some([images |-> images, text |-> text])

has_images(pg) == Len(pg.images) > 0
has_text(pg) == Len(Strip(pg.text)) > 0

\* lines 228-246: the first image of the page decides
IsOcrPage(pg) ==
    /\ has_images(pg)
    /\ pg.images[1] # None
    /\ pg.images[1][1].width > LargeImageSide
    /\ pg.images[1][1].height > LargeImageSide
    /\ has_text(pg)

OcrResult(has_ocr, ocr_pages, is_scanned) ==
    [has_ocr_layer |-> has_ocr, ocr_pages |-> ocr_pages, is_scanned |-> is_scanned]

RECURSIVE OcrPages(_, _)
OcrPages(pages, page_num) ==
    IF page_num > Len(pages) THEN <<>>
    ELSE (IF IsOcrPage(pages[page_num][1]) THEN <<page_num>> ELSE <<>>)
             \o OcrPages(pages, page_num + 1)

check_ocr_layer(pages) ==
    IF \E n \in 1..Len(pages) : pages[n] = None
    THEN OcrResult(FALSE, <<>>, FALSE)
    ELSE LET ocr_pages == OcrPages(pages, 1)
             total_image_pages == Cardinality({n \in 1..Len(pages) : has_images(pages[n][1])})
             total_text_pages == Cardinality({n \in 1..Len(pages) : has_text(pages[n][1])})
             is_scanned ==
                 \/ 10 * Len(ocr_pages) > 3 * Len(pages)
                 \/ total_image_pages = Len(pages) /\ total_text_pages = Len(pages)
         IN  OcrResult(Len(ocr_pages) > 0, ocr_pages, is_scanned)

Repeat(x, n) == [i \in 1..n |-> x]

OcrPagePool ==
    { None,
      OcrPage(<<>>, <<"a">>),
      OcrPage(<<>>, <<>>),
      OcrPage(<<Image(2000, 3000)>>, <<" ", "a", "\n">>),
      OcrPage(<<Image(2000, 3000)>>, <<" ", "\n">>),
      OcrPage(<<Image(1000, 1000)>>, <<"a">>),
      OcrPage(<<Image(1001, 1001)>>, <<"a">>),
      OcrPage(<<Image(2000, 900)>>, <<"a">>),
      OcrPage(<<Image(50, 50), Image(2000, 3000)>>, <<"a">>),
      OcrPage(<<None, Image(2000, 3000)>>, <<"a">>) }

\* longer documents around the 30% share
OcrLongDocs ==
    { Repeat(OcrPage(<<Image(2000, 3000)>>, <<"a">>), k) \o Repeat(OcrPage(<<>>, <<"a">>), n - k) :
        k \in 1..3, n \in {4, 10} }

OcrLayerCalls ==
    { [fn |-> "check_ocr_layer", pages |-> ps] :
        ps \in SeqsUpTo(OcrPagePool, MaxPages) \cup OcrLongDocs }

OcrLayerCall ==
    /\ call.fn = "check_ocr_layer"
    /\ ret = None
    /\ ret' = Some(check_ocr_layer(call.pages))
    /\ UNCHANGED call
    /\ UNCHANGED <<pageVars, fsVars, adVars, apVars, saVars, mVars, logVars>>
    /\ UNCHANGED <<tool, args, run_pc, sd_i, results, out_file, interrupt, pdf_paths, security_paths>>

(***************************************************************************)
(* pdf_security_audit_advanced.py, check_watermarks_advanced: a page is    *)
(* None when get_text("blocks") raises, else Some([blocks]); a block is    *)
(* [bbox, text], bbox in quarter points, text a sequence of characters.    *)
(***************************************************************************)
\* line 366: len(texts) > 3
WatermarkRepeats == 3
\* longest document of the watermark calls
MaxWatermarkPages == 5

\* round(): nearest integer of q quarter points, a tie to the even one
Round(q) ==
    LET f == q \div UnitsPerPoint
        r == q % UnitsPerPoint
    IN  IF 2 * r < UnitsPerPoint THEN f
        ELSE IF 2 * r > UnitsPerPoint THEN f + 1
        ELSE IF f % 2 = 0 THEN f ELSE f + 1

Block(bbox, text) == [bbox |-> bbox, text |-> text]
BlockPage(blocks) == Some([blocks |-> blocks])

\* line 358: (round(x0), round(y0), round(x1 - x0), round(y1 - y0))
pos_key(block) ==
    <<Round(block.bbox[1]), Round(block.bbox[2]),
      Round(block.bbox[3] - block.bbox[1]), Round(block.bbox[4] - block.bbox[2])>>

\* lines 350-362: the stripped texts collected under key pos, in order
RECURSIVE position_text(_, _)
position_text(blocks, pos) ==
    IF blocks = <<>> THEN <<>>
    ELSE (IF pos_key(Head(blocks)) = pos THEN <<Strip(Head(blocks).text)>> ELSE <<>>)
             \o position_text(Tail(blocks), pos)

check_watermarks_advanced(pages) ==
    IF \E n \in 1..Len(pages) : pages[n] = None
    THEN FALSE
    ELSE LET blocks == FlattenSeq([n \in 1..Len(pages) |-> pages[n][1].blocks])
         IN  \E i \in 1..Len(blocks) :
                 LET texts == position_text(blocks, pos_key(blocks[i]))
                 IN  /\ Len(texts) > WatermarkRepeats
                     /\ Cardinality({ texts[k] : k \in 1..Len(texts) }) = 1

WatermarkBlock == Block(Rect(10, 10, 50, 20), <<"W">>)
WatermarkPagePool ==
    { None,
      BlockPage(<<>>),
      BlockPage(<<WatermarkBlock>>),
      BlockPage(<<Block(Rect(100, 100, 200, 120), <<"W">>),
             Block(RectQ(41, 39, 201, 79), <<" ", "W", "\n">>)>>),
      BlockPage(<<Block(Rect(10, 10, 50, 20), <<"D">>)>>) }

\* a page that carries the same block four times
WatermarkStackedDocs ==
    { <<BlockPage(<<WatermarkBlock, WatermarkBlock, WatermarkBlock, WatermarkBlock>>)>>,
      <<BlockPage(<<WatermarkBlock, WatermarkBlock>>), BlockPage(<<WatermarkBlock>>)>> }

WatermarkCalls ==
    { [fn |-> "check_watermarks_advanced", pages |-> ps] :
        ps \in SeqsUpTo(WatermarkPagePool, MaxWatermarkPages) \cup WatermarkStackedDocs }

WatermarkCall ==
    /\ call.fn = "check_watermarks_advanced"
    /\ ret = None
    /\ ret' = Some(check_watermarks_advanced(call.pages))
    /\ UNCHANGED call
    /\ UNCHANGED <<pageVars, fsVars, adVars, apVars, saVars, mVars, logVars>>
    /\ UNCHANGED <<tool, args, run_pc, sd_i, results, out_file, interrupt, pdf_paths, security_paths>>

(***************************************************************************)
(* overlay_checker.py, format_csv_report: the removable_overlay column of  *)
(* the row of a report whose flagged pages audit_pdf collected.            *)
(***************************************************************************)
\* pdf_overlay_audit.py lines 335-345: the PageRisk of each flagged page
RECURSIVE FlaggedPages(_, _, _, _)
FlaggedPages(pages, page_num, moa, hits) ==
    IF page_num > Len(pages) THEN <<>>
    ELSE LET risk == audit_page(pages[page_num], page_num, DefaultBlackThreshold, moa, hits)
         IN  (IF risk # None THEN <<risk[1]>> ELSE <<>>)
                 \o FlaggedPages(pages, page_num + 1, moa, hits)

\* mutant: the score is read as a fraction of 10
removable_overlay_fraction(flagged_pages) ==
    IF flagged_pages = <<>> THEN "N/A"
    ELSE IF \E i \in 1..Len(flagged_pages) : flagged_pages[i].confidence_score >= 7
         THEN "YES" ELSE "MAYBE"

\* lines 276-284: confidence_score >= 0.7
removable_overlay(flagged_pages) ==
    IF flagged_pages = <<>> THEN "N/A"
    ELSE IF \E i \in 1..Len(flagged_pages) : 10 * flagged_pages[i].confidence_score >= 7
         THEN "YES" ELSE "MAYBE"

FillPage(fills, spans) ==
    [rect |-> PageRect, drawings |-> Some(fills), spans |-> Some(Spans(spans))]

\* pages that score nothing, 6, 7 and 8
CsvPagePool ==
    { FillPage(<<>>, <<Rect(5, 5, 10, 10)>>),
      FillPage(<<Drawing(Black, Rect(0, 30, 20, 50))>>, <<Rect(5, 5, 10, 10)>>),
      FillPage(<<Drawing(Black, Rect(0, 0, 20, 20))>>, <<Rect(5, 5, 10, 10)>>),
      FillPage(<<Drawing(Black, RectQ(0, 0, 160, 53))>>, <<Rect(5, 5, 10, 10)>>),
      FillPage(<<Drawing(Black, Rect(0, 0, 20, 20)), Drawing(Black, Rect(100, 100, 120, 120)),
                 Drawing(Black, Rect(0, 30, 20, 50))>>,
               <<Rect(5, 5, 10, 10), Rect(105, 105, 110, 110)>>),
      FillPage(<<Drawing(Black, RectQ(0, 0, 160, 53)), Drawing(Black, Rect(100, 100, 120, 120)),
                 Drawing(Black, Rect(0, 30, 20, 50))>>,
               <<Rect(5, 5, 10, 10), Rect(105, 105, 110, 110)>>) }

CsvOverlayCalls ==
    { [fn |-> "format_csv_report", pages |-> ps, min_overlap_area |-> moa, min_hits |-> h] :
        ps \in SeqsUpTo(CsvPagePool, MaxPages), moa \in MinOverlapAreas, h \in 1..MaxMinHits }

CsvOverlayCall ==
    /\ call.fn = "format_csv_report"
    /\ ret = None
    /\ LET flagged_pages == FlaggedPages(call.pages, 1, call.min_overlap_area, call.min_hits)
       IN  ret' = Some([flagged_pages |-> flagged_pages,
                        removable_overlay |-> removable_overlay(flagged_pages)])
    /\ UNCHANGED call
    /\ UNCHANGED <<pageVars, fsVars, adVars, apVars, saVars, mVars, logVars>>
    /\ UNCHANGED <<tool, args, run_pc, sd_i, results, out_file, interrupt, pdf_paths, security_paths>>

CalcCalls ==
    AuditPagePairCalls \cup RiskScoreCalls \cup IsColorBlackCalls \cup OverlapAreaCalls
        \cup ExtractCalls \cup HiddenTextCalls \cup OcrLayerCalls
        \cup WatermarkCalls \cup CsvOverlayCalls

CalcInit ==
    /\ PageOff
    /\ BatchOff
    /\ tool = "off"
    /\ args = DefaultArgs
    /\ run_pc = "off"
    /\ sd_i = 0
    /\ results = <<>>
    /\ out_file = None
    /\ interrupt = None
    /\ pdf_paths = <<>>
    /\ security_paths = <<>>
    /\ call \in CalcCalls
    /\ ret = None

CalcNext ==
    AuditPagePairCall \/ RiskScoreCall \/ IsColorBlackCall \/ OverlapAreaCall
        \/ ExtractCall \/ HiddenTextCall \/ OcrLayerCall
        \/ WatermarkCall \/ CsvOverlayCall

SpecCalc == CalcInit /\ [][CalcNext]_vars

(***************************************************************************)
(* Properties of detect_overlaps and audit_page (checked under SpecPage).  *)
(***************************************************************************)
\* the opaque fills and the text spans of the page under audit
PgFills == extract_black_rectangles(page, DefaultBlackThreshold)
PgSpans == get_text_rectangles(page)

\* width x height of the region common to a and b, 0 when there is none
CommonArea(a, b) ==
    LET w == Min(a[3], b[3]) - Max(a[1], b[1])
        h == Min(a[4], b[4]) - Max(a[2], b[2])
    IN  IF w > 0 /\ h > 0 THEN w * h ELSE 0

\* the fills that overlap some span by min_overlap_area or more
OverlappingFills ==
    { i \in 1..Len(PgFills) :
        \E j \in 1..Len(PgSpans) : 10 * CommonArea(PgFills[i], PgSpans[j]) >= SqUnitsPerSqPoint * min_overlap_area }

\* the spans that fill i overlaps by min_overlap_area or more
OverlappedSpans(i) ==
    { j \in 1..Len(PgSpans) : 10 * CommonArea(PgFills[i], PgSpans[j]) >= SqUnitsPerSqPoint * min_overlap_area }

\* C7: audit_page returns a PageRisk iff the page has an opaque fill, a text
\* span, and the number of fills overlapping some span (counted over all
\* fills, no early stop) is at least min_hits; otherwise it returns None.
C7_FlagIffFullCount ==
    pg_pc = "audited" =>
        ( (pg_risk # None) <=>
            /\ PgFills # <<>>
            /\ PgSpans # <<>>
            /\ Cardinality(OverlappingFills) >= min_hits )

\* a flagged page on which the early stop cut the count short
C7_Witness ==
    /\ pg_pc = "audited"
    /\ pg_risk # None
    /\ Cardinality(OverlappingFills) > min_hits

C9_CountsSpansPerFill ==
    /\ (pg_pc = "detected" /\ Len(PgFills) = 1) =>
           pg_count = Cardinality(OverlappedSpans(1))
    /\ ( /\ pg_pc = "audited"
         /\ PgFills = <<Rect(0, 0, 20, 20)>>
         /\ PgSpans = <<Rect(5, 5, 10, 10), Rect(15, 15, 20, 20), Rect(100, 100, 110, 110)>>
         /\ min_overlap_area = 40
         /\ min_hits = 1 ) =>
           (pg_risk # None /\ pg_risk[1].overlap_count = 2)

\* C10: a fill/span pair counts exactly when the area of their common region
\* is >= min_overlap_area; fill (0,0,10,10) and span (9,9,15,15) give 0 at
\* 4.0 and 1 at 0.5; with either list empty the count is 0.
C10_ThresholdInclusive ==
    pg_pc = "detected" =>
        /\ (Len(PgFills) = 1 /\ Len(PgSpans) = 1) =>
              pg_count = (IF 10 * CommonArea(PgFills[1], PgSpans[1])
                                >= SqUnitsPerSqPoint * min_overlap_area
                          THEN 1 ELSE 0)
        /\ (PgFills = <<Rect(0, 0, 10, 10)>> /\ PgSpans = <<Rect(9, 9, 15, 15)>>) =>
              /\ min_overlap_area = 40 => pg_count = 0
              /\ min_overlap_area = 5 => pg_count = 1
        /\ (PgFills = <<>> \/ PgSpans = <<>>) => pg_count = 0

\* a pair whose common area equals min_overlap_area exactly has been counted
C10_Witness ==
    /\ pg_pc = "detected"
    /\ Len(PgFills) = 1
    /\ Len(PgSpans) = 1
    /\ min_overlap_area > 0
    /\ 10 * CommonArea(PgFills[1], PgSpans[1]) = SqUnitsPerSqPoint * min_overlap_area
    /\ pg_count = 1

(***************************************************************************)
(* Properties of audit_pdf and audit_directory (checked under SpecBatch).  *)
(***************************************************************************)
\* the PDF files among pdf_files (the entries that are not directories), in
\* loop order
FilesFound == SelectSeq(pdf_files, LAMBDA path : fs[path].kind # "dir")

\* auditing this document fails: it cannot be opened, it refuses the empty
\* password, or one of its pages cannot be loaded
DocFails(doc) ==
    \/ doc.open_exc # "none"
    \/ Locked(doc)
    \/ \E i \in 1..Len(doc.pages) : doc.pages[i] = None

IsEncryptedReport(r) ==
    /\ r.error # None
    /\ r.error[1].text = "PDF is encrypted"
    /\ r.total_pages = 0
    /\ r.flagged_pages = <<>>

\* C1 (as claimed): for a document that is encrypted and refuses the empty password,
\* audit_pdf returns a report whose error starts with "PDF is encrypted",
\* with total_pages 0 and no flagged page; a directory batch holding such a
\* document still returns a report for every other document.
C1_EncryptedReport ==
    /\ (ap_pc = "done" /\ ApDoc.open_exc = "none" /\ Locked(ApDoc)) =>
           IsEncryptedReport(ap_report[1])
    /\ (ad_pc = "returned" /\ \E k \in 1..Len(FilesFound) : Locked(fs[FilesFound[k]].doc)) =>
           /\ Len(reports) = Len(FilesFound)
           /\ \A k \in 1..Len(FilesFound) :
                 /\ reports[k].filename = PathName(FilesFound[k])
                 /\ (fs[FilesFound[k]].doc.open_exc = "none" /\ Locked(fs[FilesFound[k]].doc))
                       => IsEncryptedReport(reports[k])

\* C2 (as claimed): audit_directory returns exactly one report per PDF file found, in
\* loop order; the report of a document whose audit failed carries the
\* failure in its error field, and the documents after it are audited.
C2_OneReportPerFile ==
    ad_pc = "returned" =>
        /\ Len(reports) = Len(FilesFound)
        /\ \A k \in 1..Len(FilesFound) :
              /\ reports[k].filename = PathName(FilesFound[k])
              /\ DocFails(fs[FilesFound[k]].doc) <=> reports[k].error # None

FilenameLeq(a, b) == a = b \/ StrLess(a, b)

\* C5 (as claimed): in the list returned by audit_directory an earlier report
\* has the smaller-or-equal filename, in flat and in recursive scans.
C5_SortedByFilename ==
    ad_pc = "returned" =>
        \A i, j \in 1..Len(reports) :
            i < j => FilenameLeq(reports[i].filename, reports[j].filename)

\* C5 (amended): the reports follow the sorted order of the files' paths
\* (the parts compared one by one), which in a flat scan is the order of
\* the filenames.
C5_SortedByPath ==
    ad_pc = "returned" =>
        /\ Len(reports) <= Len(FilesFound)
        /\ \A k \in 1..Len(reports) : reports[k].filename = PathName(FilesFound[k])
        /\ \A i, j \in 1..Len(FilesFound) : i < j => PathLess(FilesFound[i], FilesFound[j])
        /\ ~recursive => \A i, j \in 1..Len(reports) :
                            i < j => FilenameLeq(reports[i].filename, reports[j].filename)

\* a recursive scan that returned two reports from different directories
C5_Witness ==
    /\ ad_pc = "returned"
    /\ recursive
    /\ Len(reports) = 2
    /\ Len(FilesFound[1]) # Len(FilesFound[2])

(***************************************************************************)
(* Properties of the per-document audits (checked under SpecDoc).          *)
(***************************************************************************)
\* C3 (as claimed): in audit_pdf, audit_pdf_security and audit_pdf_advanced a
\* document that was opened is closed when the audit returns, on every exit
\* path, the exception paths included.
C3_ClosedOnReturn ==
    /\ ap_pc = "done" => ap_handle # "open"
    /\ sa_pc = "done" => sa_handle # "open"

\* C4 (as claimed): once a document has refused the empty password, no stage
\* of the pipeline attempts an access to its pages, text, annotations or
\* metadata.
C4_NoAccessAfterAuthFailure ==
    accesses = {}

(***************************************************************************)
(* Properties of an interrupted corpus run (checked under SpecRun).        *)
(***************************************************************************)
\* C6 (as claimed): after the user's interrupt no further document is
\* launched, and the run that the interrupt ended leaves the report file
\* either absent or holding the complete report.
C6_CancelLeavesNoPartialReport ==
    interrupt # None =>
        /\ DocsLaunched = interrupt[1].at
        /\ run_pc = "killed" => (out_file = None \/ out_file = Some(ReportRecords))

(***************************************************************************)
(* Properties of the pure functions (checked under SpecCalc).              *)
(***************************************************************************)
\* the opaque fills audit_page works on, and how many of them overlap a span
\* of pg by moa or more
FillsOf(pg) == extract_black_rectangles(pg, DefaultBlackThreshold)
OverlapCountOf(pg, moa) ==
    Cardinality({ i \in 1..Len(FillsOf(pg)) :
        \E j \in 1..Len(get_text_rectangles(pg)) :
            10 * CommonArea(FillsOf(pg)[i], get_text_rectangles(pg)[j])
                >= SqUnitsPerSqPoint * moa })

\* +3 any fill, +3 overlaps meet min_hits, +1 some fill with width > 3 x
\* height, +1 three fills or more
ScoreSum(pg, moa, hits) ==
    (IF FillsOf(pg) # <<>> THEN 3 ELSE 0)
    + (IF OverlapCountOf(pg, moa) >= hits THEN 3 ELSE 0)
    + (IF \E i \in 1..Len(FillsOf(pg)) :
             FillsOf(pg)[i][3] - FillsOf(pg)[i][1]
                > 3 * (FillsOf(pg)[i][4] - FillsOf(pg)[i][2]) THEN 1 ELSE 0)
    + (IF Len(FillsOf(pg)) >= 3 THEN 1 ELSE 0)

\* the score a result of audit_page carries; an unflagged page carries none
ScoreOf(risk) == IF risk = None THEN 0 ELSE risk[1].confidence_score

AuditPagePairDone == call.fn = "audit_page" /\ ret # None

\* C11 (as claimed): the confidence score of an audited page is the sum of
\* the four weights, and the page with one more fill or span never has the
\* lower score.
C11_ScoreSumMonotonicInPage ==
    AuditPagePairDone =>
        /\ ret[1][1] # None =>
              ret[1][1][1].confidence_score
                  = ScoreSum(call.page, call.min_overlap_area, call.min_hits)
        /\ ScoreOf(ret[1][2]) >= ScoreOf(ret[1][1])

\* C11 (amended): the score is the sum of the four weights, and it is
\* monotonic in the fills extract_black_rectangles returns: when every fill
\* extracted from the page is still extracted from the page with one more
\* fill or span (the added fill has not displaced a near-identical one
\* behind it), the score is not lower.
C11_ScoreSumMonotonicInFills ==
    AuditPagePairDone =>
        /\ ret[1][1] # None =>
              ret[1][1][1].confidence_score
                  = ScoreSum(call.page, call.min_overlap_area, call.min_hits)
        /\ ret[1][2] # None =>
              ret[1][2][1].confidence_score
                  = ScoreSum(call.more, call.min_overlap_area, call.min_hits)
        /\ (\A i \in 1..Len(FillsOf(call.page)) :
               \E k \in 1..Len(FillsOf(call.more)) :
                   FillsOf(call.more)[k] = FillsOf(call.page)[i])
              => ScoreOf(ret[1][2]) >= ScoreOf(ret[1][1])

\* a flagged page of two fills scoring 6 whose third fill, a wide strip,
\* raises the score to 8
C11_Witness ==
    /\ AuditPagePairDone
    /\ ret[1][1] # None
    /\ ret[1][1][1].confidence_score = 6
    /\ Len(FillsOf(call.page)) = 2
    /\ Len(FillsOf(call.more)) = 3
    /\ ret[1][2] # None
    /\ ret[1][2][1].confidence_score = 8

\* the signals of a findings set, and the weight of each
SignalNames ==
    {"hidden_text", "overlay_yes", "overlay_maybe", "signatures", "javascript",
     "links_or_remote", "metadata", "attachments", "reviewer_names", "ocr_layer",
     "incremental_updates", "forms", "thumbnails", "structure_tags"}

SignalsPresent(f) ==
    { n \in SignalNames :
        \/ n = "hidden_text" /\ f.has_hidden_text
        \/ n = "overlay_yes" /\ f.overlay_risk = "YES"
        \/ n = "overlay_maybe" /\ f.overlay_risk = "MAYBE"
        \/ n = "signatures" /\ f.has_signatures
        \/ n = "javascript" /\ f.has_javascript
        \/ n = "links_or_remote" /\ (f.has_external_links \/ f.has_remote_resources)
        \/ n = "metadata" /\ f.has_metadata
        \/ n = "attachments" /\ f.has_attachments
        \/ n = "reviewer_names" /\ Len(f.reviewer_names) > 0
        \/ n = "ocr_layer" /\ f.has_ocr_layer
        \/ n = "incremental_updates" /\ f.incremental_updates
        \/ n = "forms" /\ f.has_forms
        \/ n = "thumbnails" /\ f.has_thumbnails
        \/ n = "structure_tags" /\ f.has_structure_tags }

SignalWeight(n) ==
    CASE n \in {"hidden_text", "javascript"} -> 15
      [] n = "overlay_yes" -> 20
      [] n \in {"overlay_maybe", "signatures", "links_or_remote"} -> 10
      [] n \in {"metadata", "attachments", "reviewer_names", "incremental_updates"} -> 5
      [] n = "ocr_layer" -> 3
      [] n \in {"forms", "thumbnails"} -> 2
      [] n = "structure_tags" -> 1

\* the weights of a set of signals added up, whatever the order
RECURSIVE WeightSum(_)
WeightSum(S) ==
    IF S = {} THEN 0
    ELSE LET n == CHOOSE x \in S : TRUE IN SignalWeight(n) + WeightSum(S \ {n})

RiskScoreDone == call.fn = "calculate_risk_score" /\ ret # None

\* C12: calculate_risk_score returns the sum of the weights of the signals
\* present, whatever the order they are added in, within 0..100; hidden text,
\* overlay risk YES and JavaScript alone give 50.
C12_RiskScoreIsWeightSum ==
    RiskScoreDone =>
        /\ ret[1] = WeightSum(SignalsPresent(call.findings))
        /\ ret[1] \in 0..100
        /\ SignalsPresent(call.findings) = {"hidden_text", "overlay_yes", "javascript"}
              => ret[1] = 50

\* the score of hidden text, overlay risk YES and JavaScript, with links and
\* remote resources scored once in another call
C12_Witness ==
    /\ RiskScoreDone
    /\ \/ /\ SignalsPresent(call.findings) = {"hidden_text", "overlay_yes", "javascript"}
          /\ ret[1] = 50
       \/ /\ call.findings.has_external_links
          /\ call.findings.has_remote_resources
          /\ ret[1] = 98

\* the report main emitted, and its security object
EmittedSecurity == output[1].reports[1].security[1]
SecurityEmitted == output # None /\ output[1].reports[1].security # None

\* C13: in every emitted report risk_score equals calculate_risk_score of the
\* findings in that same report, overlay risk included.
C13_ReportScoreMatchesFindings ==
    SecurityEmitted => EmittedSecurity.risk_score = calculate_risk_score(EmittedSecurity)

\* the checks of the audit under way, and those among the ones already run
\* whose try block raised
ChecksOf(fn) == IF fn = "security" THEN SecurityChecks ELSE AdvancedChecks
RaisedChecks ==
    IF sa_pc \in {"idle", "open"} THEN {}
    ELSE { ChecksOf(sa_fn)[i] : i \in 1..sa_check } \cap content.malformed

\* the notes that tell of something else than a check that raised
OtherNotes ==
    { <<"PDF is encrypted - some checks may be incomplete", "">>,
      <<"PDF is encrypted - some checks incomplete", "">>,
      <<"pikepdf not available - some checks skipped", "">>,
      <<"pikepdf not available - advanced checks skipped", "">> }
FailureNotes == { i \in 1..Len(sa_notes) : sa_notes[i] \notin OtherNotes }

\* C14: a structural check that raises is caught locally, a note recording it
\* is appended to the findings' notes, and every remaining check still runs.
C14_CheckFailureNoted ==
    /\ RaisedChecks # {} => Cardinality(FailureNotes) >= Cardinality(RaisedChecks)
    /\ (sa_pc = "done" /\ sa_handle # "none") => sa_check = Len(ChecksOf(sa_fn))

IsColorBlackDone == call.fn = "is_color_black" /\ ret # None

\* C15: is_color_black classifies by colour space: one component is black-like
\* iff value <= threshold, three iff all <= threshold, four iff
\* K >= 1 - threshold and C, M, Y <= threshold; any other colour never is.
C15_ClassifiesByColourSpace ==
    IsColorBlackDone =>
        LET c == call.color
            t == call.threshold
        IN  ret[1][1] =
                CASE Len(c) = 1 -> c[1] <= t
                  [] Len(c) = 3 -> \A i \in 1..3 : c[i] <= t
                  [] Len(c) = 4 -> c[4] >= 100 - t /\ \A i \in 1..3 : c[i] <= t
                  [] OTHER -> FALSE

\* C16: a colour that is black-like at a threshold is black-like at every
\* higher threshold.
C16_MonotonicInThreshold ==
    (IsColorBlackDone /\ call.higher > call.threshold /\ ret[1][1]) => ret[1][2]

\* a colour with a non-zero component that is black-like at a threshold and
\* at a higher one
C16_Witness ==
    /\ IsColorBlackDone
    /\ call.higher > call.threshold
    /\ Len(call.color) \in {1, 3, 4}
    /\ ret[1][1]
    /\ ret[1][2]
    /\ \E i \in 1..Len(call.color) : call.color[i] > 0

OverlapAreaDone == call.fn = "compute_overlap_area" /\ ret # None

\* a rectangle with no interior, and the points two rectangles share
Degenerate(r) == r[1] >= r[3] \/ r[2] >= r[4]
SharedWidth(a, b) == Min(a[3], b[3]) - Max(a[1], b[1])
SharedHeight(a, b) == Min(a[4], b[4]) - Max(a[2], b[2])
Inside(a, b) == b[1] <= a[1] /\ a[3] <= b[3] /\ b[2] <= a[2] /\ a[4] <= b[4]

\* C17: compute_overlap_area is commutative and is the width x height of the
\* common region: 0 when the rectangles are disjoint, only touch, or either is
\* degenerate; area(a) when a lies inside b; a rectangle's own area with itself.
C17_OverlapAreaIsCommonRegion ==
    OverlapAreaDone =>
        LET a == call.rect1
            b == call.rect2
            area == ret[1][1]
        IN  /\ area = ret[1][2]
            /\ area >= 0
            /\ IF Degenerate(a) \/ Degenerate(b) \/ SharedWidth(a, b) <= 0
                  \/ SharedHeight(a, b) <= 0
               THEN area = 0
               ELSE area = SharedWidth(a, b) * SharedHeight(a, b)
            /\ (~Degenerate(a) /\ Inside(a, b)) => area = (a[3] - a[1]) * (a[4] - a[2])
            /\ a = b => area = (IF Degenerate(a) THEN 0 ELSE (a[3] - a[1]) * (a[4] - a[2]))

\* two rectangles that overlap in part, neither inside the other
C17_Witness ==
    /\ OverlapAreaDone
    /\ ret[1][1] > 0
    /\ ~Inside(call.rect1, call.rect2)
    /\ ~Inside(call.rect2, call.rect1)

\* the document with the text of every span blanked out
EraseText(doc) ==
    [doc EXCEPT !.pages =
        [i \in 1..Len(doc.pages) |->
            IF doc.pages[i] = None \/ doc.pages[i][1].spans = None
            THEN doc.pages[i]
            ELSE Some(WithText(doc.pages[i][1], ""))]]

\* reports i and j are of two documents of one filename that differ, and only
\* in the text of their spans
DifferInTextOnly(i, j) ==
    LET di == fs[FilesFound[i]].doc
        dj == fs[FilesFound[j]].doc
    IN  /\ di # dj
        /\ EraseText(di) = EraseText(dj)
        /\ PathName(FilesFound[i]) = PathName(FilesFound[j])

\* C18: two documents that differ only in the text of their spans produce
\* identical PDFRiskReports and identical JSON output.
C18_ReportIndependentOfText ==
    \A i, j \in 1..Len(reports) :
        DifferInTextOnly(i, j) =>
            /\ reports[i] = reports[j]
            /\ format_json_report(<<reports[i]>>) = format_json_report(<<reports[j]>>)

\* both documents of such a pair have been audited, and a page was flagged
C18_Witness ==
    /\ Len(reports) = 2
    /\ DifferInTextOnly(1, 2)
    /\ reports[1].flagged_pages # <<>>
    /\ reports[2].flagged_pages # <<>>

\* the metadata check has run, and read the document's metadata
MetadataChecked ==
    /\ sa_pc \notin {"idle", "open"}
    /\ sa_handle # "none"
    /\ sa_check >= 1
    /\ "metadata" \notin content.malformed

\* the metadata values held in a findings object
ValuesIn(findings) ==
    { findings.metadata_details[i][2] : i \in 1..Len(findings.metadata_details) }

\* C19: has_metadata is true iff some metadata key has a non-empty value,
\* metadata_keys lists exactly those keys, and no metadata value appears in
\* the findings or in the emitted report.
C19_MetadataByKeysOnly ==
    /\ MetadataChecked =>
          LET present == PresentMetadata(content)
          IN  /\ sa_findings.has_metadata = (present # <<>>)
              /\ sa_findings.metadata_keys = [i \in 1..Len(present) |-> present[i][1]]
              /\ ValuesIn(sa_findings) = {}
    /\ SecurityEmitted => ValuesIn(EmittedSecurity) = {}

\* the run of overlay_checker has ended by itself
CliEnded == tool = "overlay_checker" /\ run_pc \in {"exit0", "exit1", "exit2"}
NothingProcessed == reports = <<>> /\ ap_pc = "idle" /\ ad_pc = "off"

\* C20: the CLI exits with code 0 on success, with code 1 on invalid
\* arguments or a missing input path, before any document is processed; the
\* errors of single files do not change the exit code.
C20_ExitCodes ==
    CliEnded =>
        IF ArgsInvalid(args) \/ dir_kind = "missing"
        THEN run_pc = "exit1" /\ NothingProcessed
        ELSE run_pc = "exit0"

ExtractDone == call.fn = "extract_black_rectangles" /\ ret # None

\* the rectangles of the page's paths whose fill is black-like
BlackPathRects(pg) ==
    UNION { { d.rect[k] : k \in 1..Len(d.rect) } \cup { d.items[k] : k \in 1..Len(d.items) } :
            d \in { pg.drawings[1][i] : i \in { j \in 1..Len(pg.drawings[1]) :
                        is_color_black(pg.drawings[1][j].fill, DefaultBlackThreshold) } } }

\* all four coordinates differ by less than half a point
CloseCoordinates(r, u) == \A k \in 1..4 : 2 * Abs(r[k] - u[k]) < UnitsPerPoint

\* C21: every rectangle extract_black_rectangles returns comes from a path
\* with a black-like fill, is at least min_dimension wide and high, covers at
\* most max_coverage_ratio of the page, and no two of them are near-identical.
C21_ExtractedRectangles ==
    ExtractDone =>
        LET rects == ret[1]
            pg == call.page
        IN  /\ \A i \in 1..Len(rects) :
                  /\ rects[i] \in BlackPathRects(pg)
                  /\ rects[i][3] - rects[i][1] >= UnitsPerPoint * DefaultMinDimension
                  /\ rects[i][4] - rects[i][2] >= UnitsPerPoint * DefaultMinDimension
                  /\ 100 * (rects[i][3] - rects[i][1]) * (rects[i][4] - rects[i][2])
                        <= DefaultMaxCoverageRatio * RectGetArea(pg.rect)
            /\ \A i, j \in 1..Len(rects) : i # j => ~CloseCoordinates(rects[i], rects[j])

\* two rectangles are returned of a page that had more black candidates, among
\* them a near-identical pair
C21_Witness ==
    /\ ExtractDone
    /\ Len(ret[1]) = 2
    /\ \E r, u \in BlackPathRects(call.page) : r # u /\ CloseCoordinates(r, u)
    /\ Cardinality(BlackPathRects(call.page)) > 2

HiddenTextDone == call.fn = "check_hidden_text" /\ ret # None

\* page n of the document holds a span of the category
PageHasWhiteSpan(pages, n) ==
    /\ ~PageUnreadable(pages[n])
    /\ \E i \in 1..Len(pages[n][1].spans[1]) : SpanIsWhite(pages[n][1].spans[1][i])
PageHasOffPageSpan(pages, n) ==
    /\ ~PageUnreadable(pages[n])
    /\ \E i \in 1..Len(pages[n][1].spans[1]) :
          SpanIsOffPage(pages[n][1].spans[1][i], pages[n][1].rect)

Ascending(seq) == \A i, j \in 1..Len(seq) : i < j => seq[i] < seq[j]
Members(seq) == { seq[i] : i \in 1..Len(seq) }

\* C22: a page number is in a category's list iff some span of the page
\* matches the category, once and in ascending order; hidden_text_types has no
\* duplicates and names a category iff its list is not empty; has_hidden_text
\* is true iff hidden_text_types is not empty.
C22_HiddenTextAggregation ==
    HiddenTextDone =>
        LET r == ret[1]
            pages == call.pages
        IN  /\ Members(r.white_on_white_pages) =
                  { n \in 1..Len(pages) : PageHasWhiteSpan(pages, n) }
            /\ Members(r.offpage_text_pages) =
                  { n \in 1..Len(pages) : PageHasOffPageSpan(pages, n) }
            /\ Ascending(r.white_on_white_pages)
            /\ Ascending(r.offpage_text_pages)
            /\ Cardinality(Members(r.hidden_text_types)) = Len(r.hidden_text_types)
            /\ Members(r.hidden_text_types) =
                  (IF r.white_on_white_pages # <<>> THEN {"white-on-white text"} ELSE {})
                  \cup (IF r.offpage_text_pages # <<>> THEN {"off-page text"} ELSE {})
            /\ r.has_hidden_text = (r.hidden_text_types # <<>>)

\* the components of an sRGB integer, and a colour whose every component is
\* within 1% of full intensity
Red(color) == color \div 65536
Green(color) == (color \div 256) % 256
Blue(color) == color % 256
NearWhite(color) ==
    /\ 100 * Red(color) >= 99 * 255
    /\ 100 * Green(color) >= 99 * 255
    /\ 100 * Blue(color) >= 99 * 255

AllPagesRead == \A n \in 1..Len(call.pages) : ~PageUnreadable(call.pages[n])

\* C23: a span is classified white-on-white iff every one of its red, green
\* and blue components is within about 1% of full intensity.
C23_WhiteIffNearWhite ==
    (HiddenTextDone /\ AllPagesRead) =>
        \A n \in 1..Len(call.pages) :
            (n \in Members(ret[1].white_on_white_pages))
                <=> \E i \in 1..Len(call.pages[n][1].spans[1]) :
                        NearWhite(call.pages[n][1].spans[1][i].color)

(***************************************************************************)
(* Properties of check_ocr_layer (checked under SpecCalc).                 *)
(***************************************************************************)
OcrLayerDone == call.fn = "check_ocr_layer" /\ ret # None

\* the page has an embedded image of at least 1000 x 1000 pixels
HasLargeImage(p) ==
    \E i \in 1..Len(p[1].images) :
        /\ p[1].images[i] # None
        /\ p[1].images[i][1].width >= 1000
        /\ p[1].images[i][1].height >= 1000

\* the text extracted from the page is not empty
HasExtractedText(p) == \E i \in 1..Len(p[1].text) : p[1].text[i] \notin Whitespace

\* the pages of the call that have a large image and text
OcrLayerPages ==
    { n \in 1..Len(call.pages) :
        call.pages[n] # None /\ HasLargeImage(call.pages[n]) /\ HasExtractedText(call.pages[n]) }

\* C24: a page is listed as an OCR-layer page iff it has an embedded image of
\* at least 1000 x 1000 and non-empty extracted text, and the document is
\* flagged scanned iff at least 30% of its pages are OCR-layer pages or
\* every page has both an image and text.
C24_OcrLayerHeuristic ==
    OcrLayerDone =>
        /\ Members(ret[1].ocr_pages) = OcrLayerPages
        /\ ret[1].is_scanned <=>
               \/ 10 * Cardinality(OcrLayerPages) >= 3 * Len(call.pages)
               \/ \A n \in 1..Len(call.pages) :
                      /\ call.pages[n] # None
                      /\ Len(call.pages[n][1].images) > 0
                      /\ HasExtractedText(call.pages[n])

(***************************************************************************)
(* Properties of check_watermarks_advanced (checked under SpecCalc).       *)
(***************************************************************************)
WatermarkDone == call.fn = "check_watermarks_advanced" /\ ret # None

\* the pages of the call that carry text at position pos
PagesCarrying(text, pos) ==
    { n \in 1..Len(call.pages) :
        /\ call.pages[n] # None
        /\ \E i \in 1..Len(call.pages[n][1].blocks) :
               /\ pos_key(call.pages[n][1].blocks[i]) = pos
               /\ Strip(call.pages[n][1].blocks[i].text) = text }

\* the blocks of the readable pages of the call
CallBlocks ==
    UNION { { call.pages[n][1].blocks[i] : i \in 1..Len(call.pages[n][1].blocks) } :
              n \in { m \in 1..Len(call.pages) : call.pages[m] # None } }

\* C25: check_watermarks_advanced reports a watermark iff some identical
\* text recurs at the same rounded position on more than 3 distinct pages.
C25_WatermarkIffRecurring ==
    WatermarkDone =>
        (ret[1] <=> \E b \in CallBlocks :
                        Cardinality(PagesCarrying(Strip(b.text), pos_key(b))) > 3)

(***************************************************************************)
(* Further properties of audit_page (checked under SpecPage).              *)
(***************************************************************************)
\* C26: for every page flagged by audit_page with min_hits >= 1 the reported
\* overlap_count equals min_hits exactly, however many fills overlap text.
C26_OverlapCountIsMinHits ==
    (pg_pc = "audited" /\ pg_risk # None /\ min_hits >= 1) =>
        pg_risk[1].overlap_count = min_hits

\* a flagged page on which every fill overlaps text and the fills outnumber
\* min_hits
C26_Witness ==
    /\ pg_pc = "audited"
    /\ pg_risk # None
    /\ Len(PgFills) > min_hits
    /\ OverlappingFills = 1..Len(PgFills)

(***************************************************************************)
(* Properties of the confidence score in the CSV report (SpecCalc).        *)
(***************************************************************************)
CsvOverlayDone == call.fn = "format_csv_report" /\ ret # None

\* C27: every PageRisk of audit_page has a confidence_score from 6 to 8, so
\* the removable_overlay column is "N/A" for a document without a flagged
\* page and "YES" for a document with one; "MAYBE" is never written.
C27_ScoreRangeAndColumn ==
    /\ AuditPagePairDone =>
           \A k \in 1..2 : ret[1][k] # None => ret[1][k][1].confidence_score \in 6..8
    /\ CsvOverlayDone =>
           /\ \A i \in 1..Len(ret[1].flagged_pages) :
                  ret[1].flagged_pages[i].confidence_score \in 6..8
           /\ ret[1].removable_overlay
                  = (IF ret[1].flagged_pages = <<>> THEN "N/A" ELSE "YES")
           /\ ret[1].removable_overlay # "MAYBE"

\* a document whose only flagged page has the lowest score
C27_Witness ==
    /\ CsvOverlayDone
    /\ Len(ret[1].flagged_pages) = 1
    /\ ret[1].flagged_pages[1].confidence_score = 6
    /\ ret[1].removable_overlay = "YES"

(***************************************************************************)
(* Properties of the security findings of a directory scan (SpecRun).      *)
(***************************************************************************)
\* the files audit_directory has audited, in order: report i comes from the
\* i-th of them
AuditedFiles == SelectSeq(pdf_files, LAMBDA path : fs[path].kind = "file")

\* overlay_checker has formatted the text or CSV report of a directory
SecurityFormatted ==
    /\ tool = "overlay_checker"
    /\ run_pc \in {"open_out", "write", "exit0"}
    /\ reports # <<>>
    /\ ~args.json

\* C28: in a directory scan the security findings written next to each
\* overlay report are computed from the file the overlay report was computed
\* from, also when files in different subdirectories share a filename.
C28_SecurityFromSameFile ==
    SecurityFormatted =>
        \A i \in 1..Len(reports) :
            security_paths[i] # None => security_paths[i][1] = AuditedFiles[i]

(***************************************************************************)
(* Properties of the reports of audit_pdf and their summary (SpecBatch).   *)
(***************************************************************************)
\* the page numbers of a report's flagged pages
FlaggedNumbers(report) ==
    [k \in 1..Len(report.flagged_pages) |-> report.flagged_pages[k].page_number]

\* C29: a report with an error has no flagged page, the flagged page numbers
\* lie in 1..total_pages in strictly increasing order, and so in the summary
\* total_flagged_pages never exceeds total_pages and pdfs_with_risks never
\* counts a document with an error.
C29_ReportInvariants ==
    /\ \A i \in 1..Len(reports) :
          /\ reports[i].error # None => reports[i].flagged_pages = <<>>
          /\ Ascending(FlaggedNumbers(reports[i]))
          /\ Members(FlaggedNumbers(reports[i])) \subseteq 1..reports[i].total_pages
    /\ LET summary == format_json_report(reports).summary
       IN  /\ summary.total_flagged_pages <= summary.total_pages
           /\ summary.pdfs_with_risks
                  <= Cardinality({ i \in 1..Len(reports) : reports[i].error = None })

(***************************************************************************)
(* Properties of fills that touch no text (checked under SpecPage).        *)
(***************************************************************************)
\* the fills that share a region of positive area with some span
TouchingFills ==
    { i \in 1..Len(PgFills) :
        \E j \in 1..Len(PgSpans) : CommonArea(PgFills[i], PgSpans[j]) > 0 }

\* C30: a fill disjoint from every text span is never counted as an overlap
\* and never causes the page to be flagged, for every min_overlap_area >= 0,
\* 0 included.
C30_DisjointFillNeverCounts ==
    /\ pg_pc = "detected" => pg_count <= Cardinality(TouchingFills)
    /\ (pg_pc = "audited" /\ TouchingFills = {}) => pg_risk = None

====
